---- MODULE Spec2Model ----
(***************************************************************************)
(* Capture timing and correlation engine of capture_lib: the mss screen    *)
(* capture loop, the webcam cadence loop with its background reader, and   *)
(* the post-capture functions of session.py (correlator, ledger merge,     *)
(* validation).  Times are nanoseconds of the monotonic clock.             *)
(***************************************************************************)
EXTENDS Integers, Sequences, FiniteSets, TLC

(* ----------------------------- constants ------------------------------ *)

\* 1_000_000_000: nanoseconds per second
NsPerSecond == 1000000000

\* time.sleep(min(sleep_time, 0.1)): the cap on one sleep, in ns
SleepCapNs == 100000000

\* time.sleep(0.01) after a failed grab / a failed webcam tick, in ns
ErrorPauseNs == 10000000

\* None
Null == -1

\* proc.returncode after proc.kill(): the negated signal number of SIGKILL
KilledReturnCode == -9

\* np.zeros(...).tobytes(): the blank placeholder payload
BlankFrame == 0

(* ------------------------------- bounds ------------------------------- *)

\* the clock advances in steps of half a sleep cap
ClockStepNs == SleepCapNs \div 2

\* how many steps the clock takes in a run
MaxClockSteps == 5

\* how many deadlines one loop schedules in a run
MaxTicks == 3

\* how many dropped frames one loop counts in a run
MaxDropped == 1

\* target rates: an interval above the sleep cap (5 fps) and one below (20 fps)
FpsChoices == {5, 20}

StartNs == ClockStepNs

EndNs == StartNs + MaxClockSteps * ClockStepNs

Min(a, b) == IF a < b THEN a ELSE b

(* ------------------------------- state -------------------------------- *)

VARIABLES
    now,        \* time.monotonic_ns()
    allowed,    \* what capture_allowed_fn() returns at this instant
    fps,        \* the session's target rate
    screen,     \* _MssScreenRecorder and its capture thread
    webcam,     \* WebcamRecorder and its capture thread
    reader,     \* WebcamRecorder's reader thread and the latest-sample cell
    session     \* run_capture_session after the capture phase

vars == <<now, allowed, fps, screen, webcam, reader, session>>

\* a record that is numbered from one
FrameRecordFromOne(frame_index, t_ns, t_capture_ns, is_duplicate) ==
    [frame_index |-> frame_index + 1, t_ns |-> t_ns,
     t_capture_ns |-> t_capture_ns, is_duplicate |-> is_duplicate]

\* FrameRecord(frame_index, t_ns, t_capture_ns, is_duplicate)
FrameRecord(frame_index, t_ns, t_capture_ns, is_duplicate) ==
    [frame_index |-> frame_index, t_ns |-> t_ns,
     t_capture_ns |-> t_capture_ns, is_duplicate |-> is_duplicate]

\* int(1_000_000_000 / fps)
FrameIntervalNs(f) == NsPerSecond \div f

\* next_frame_time += frame_interval_ns  (current is the clock at that point)
AdvanceDeadlineReanchored(next_frame_time, interval, current) ==
    IF current > next_frame_time THEN current + interval
    ELSE next_frame_time + interval

AdvanceDeadline(next_frame_time, interval, current) ==
    next_frame_time + interval

\* FfmpegVideoWriter after __init__: the encoder process runs, stdin is open
NewWriter ==
    [stdin_open |-> TRUE,
     timed_out |-> FALSE,        \* proc.wait(timeout) raised TimeoutExpired
     killed |-> FALSE,           \* proc.kill() was called
     returncode |-> Null,        \* proc.returncode
     close |-> "none"]           \* how close() ended: "returned" / "raised"

\* if self.proc.returncode != 0: raise RuntimeError
CloseRaisesOnKillOnly(returncode) == returncode = KilledReturnCode

CloseRaises(returncode) == returncode # 0

\* FfmpegVideoWriter.close(): close stdin, wait for the process, kill it on
\* a timeout and wait again, raise on a non-zero exit code.  The arguments
\* are what the process does: whether it exits within the timeout, with
\* which code, and whether it is gone within the timeout after the kill
\* (if not, the second wait raises TimeoutExpired).
WriterClose(w, exits_in_time, exit_code, exits_after_kill) ==
    IF exits_in_time
    THEN [w EXCEPT !.stdin_open = FALSE,
                   !.returncode = exit_code,
                   !.close = IF CloseRaises(exit_code)
                             THEN "raised" ELSE "returned"]
    ELSE IF exits_after_kill
    THEN [w EXCEPT !.stdin_open = FALSE,
                   !.timed_out = TRUE,
                   !.killed = TRUE,
                   !.returncode = KilledReturnCode,
                   !.close = IF CloseRaises(KilledReturnCode)
                             THEN "raised" ELSE "returned"]
    ELSE [w EXCEPT !.stdin_open = FALSE,
                   !.timed_out = TRUE,
                   !.killed = TRUE,
                   !.close = "raised"]

\* a recorder object before start(): counters at 0, no records
NewRecorder(enabled) ==
    [pc |-> IF enabled THEN "start" ELSE "off",
     stop_event |-> FALSE,
     next_frame_time |-> Null,
     anchor |-> Null,            \* the first deadline
     ticks |-> 0,                \* times the deadline was advanced
     wake |-> Null,              \* end of the sleep in progress
     frame_index |-> 0,
     dropped_frames |-> 0,
     padded_frames |-> 0,
     frame_records |-> <<>>,
     last_frame_bytes |-> Null,
     pending |-> Null,           \* frame_bytes about to be written
     written |-> <<>>,           \* payloads the encoder sink accepted
     stopper |-> "idle",         \* where the caller of stop() is
     writer |-> NewWriter]       \* the FfmpegVideoWriter of the stream

\* validation = {"valid": True, "errors": [], "warnings": [], ...}
NoValidation == [valid |-> TRUE, errors |-> <<>>, warnings |-> <<>>]

\* run_capture_session before its post-capture steps: nothing drained yet;
\* an absent webcam_frames (None) is the empty list: every use of it in
\* write_events and validate_capture_data treats the two alike
NoSession ==
    [pc |-> "capturing", events |-> <<>>, screen_frames |-> <<>>,
     webcam_frames |-> <<>>, validation |-> NoValidation, ledger |-> <<>>]

Init ==
    /\ now = StartNs
    /\ allowed \in BOOLEAN
    /\ fps \in FpsChoices
    /\ \E which \in {"screen", "webcam"} :
         /\ screen = NewRecorder(which = "screen")
         \* WebcamRecorder._init_devices has primed the cell and last_frame_bytes
         /\ webcam = [NewRecorder(which = "webcam") EXCEPT
                         !.last_frame_bytes = StartNs]
         /\ reader = [pc |-> IF which = "webcam" THEN "idle" ELSE "off",
                      reader_stop |-> FALSE,
                      latest_frame |-> StartNs,
                      latest_capture_ns |-> StartNs,
                      last_consumed_capture_ns |-> Null]
    /\ session = NoSession

(* ---------------------------- environment ----------------------------- *)

\* the monotonic clock moves on
ClockAdvance ==
    /\ now < EndNs
    /\ now' = now + ClockStepNs
    /\ UNCHANGED <<allowed, fps, screen, webcam, reader, session>>

\* the target window gains or loses focus
GateToggle ==
    /\ allowed' = ~allowed
    /\ UNCHANGED <<now, fps, screen, webcam, reader, session>>

(* ------------------------- mss screen loop ---------------------------- *)

\* _capture_loop entry: next_frame_time = time.monotonic_ns()
ScreenLoopStart ==
    /\ screen.pc = "start"
    /\ screen' = [screen EXCEPT !.pc = "top", !.next_frame_time = now,
                                !.anchor = now]
    /\ UNCHANGED <<now, allowed, fps, webcam, reader, session>>

\* while not stop_event.is_set(): read the clock, sleep if early
ScreenLoopTopNoStopCheck ==
    /\ screen.pc = "top"
    /\ screen' =
         IF now < screen.next_frame_time
         THEN [screen EXCEPT !.pc = "sleep",
                  !.wake = now + Min(screen.next_frame_time - now, SleepCapNs)]
         ELSE [screen EXCEPT !.pc = "gate"]
    /\ UNCHANGED <<now, allowed, fps, webcam, reader, session>>

ScreenLoopTop ==
    /\ screen.pc = "top"
    /\ screen' =
         IF screen.stop_event THEN [screen EXCEPT !.pc = "exited"]
         ELSE IF now < screen.next_frame_time
         THEN [screen EXCEPT !.pc = "sleep",
                  !.wake = now + Min(screen.next_frame_time - now, SleepCapNs)]
         ELSE [screen EXCEPT !.pc = "gate"]
    /\ UNCHANGED <<now, allowed, fps, webcam, reader, session>>

\* time.sleep returns (no earlier than asked); the loop goes on to the gate
ScreenWake ==
    /\ screen.pc \in {"sleep", "errsleep"}
    /\ now >= screen.wake
    /\ screen' = [screen EXCEPT
                    !.pc = IF screen.pc = "sleep" THEN "gate" ELSE "top",
                    !.wake = Null]
    /\ UNCHANGED <<now, allowed, fps, webcam, reader, session>>

\* gate closed: next_frame_time += frame_interval_ns; continue
ScreenGateClosed ==
    /\ screen.pc = "gate"
    /\ ~allowed
    /\ screen.ticks < MaxTicks
    /\ screen' = [screen EXCEPT
                    !.pc = "top",
                    !.next_frame_time =
                        AdvanceDeadline(@, FrameIntervalNs(fps), now),
                    !.ticks = @ + 1]
    /\ UNCHANGED <<now, allowed, fps, webcam, reader, session>>

\* sct.grab raises: sandboxed -> break; otherwise dropped, pause, continue
ScreenGrabError ==
    /\ screen.pc = "gate"
    /\ allowed
    /\ \E sandboxed \in BOOLEAN :
         IF sandboxed
         THEN screen' = [screen EXCEPT !.pc = "exited"]
         ELSE /\ screen.dropped_frames < MaxDropped
              /\ screen' = [screen EXCEPT
                              !.pc = "errsleep",
                              !.wake = now + ErrorPauseNs,
                              !.dropped_frames = @ + 1]
    /\ UNCHANGED <<now, allowed, fps, webcam, reader, session>>

\* _process_frame returns nothing: dropped, deadline advanced
ScreenFrameEmpty ==
    /\ screen.pc = "gate"
    /\ allowed
    /\ screen.ticks < MaxTicks
    /\ screen.dropped_frames < MaxDropped
    /\ screen' = [screen EXCEPT
                    !.pc = "top",
                    !.dropped_frames = @ + 1,
                    !.next_frame_time =
                        AdvanceDeadline(@, FrameIntervalNs(fps), now),
                    !.ticks = @ + 1]
    /\ UNCHANGED <<now, allowed, fps, webcam, reader, session>>

\* a frame was grabbed: append FrameRecord(t_ns=capture_start_ns), index += 1
ScreenAppend ==
    /\ screen.pc = "gate"
    /\ allowed
    /\ screen.ticks < MaxTicks
    /\ screen' = [screen EXCEPT
                    !.pc = "write",
                    !.frame_records =
                        Append(@, FrameRecord(screen.frame_index, now, now, FALSE)),
                    !.frame_index = @ + 1,
                    !.pending = now]
    /\ UNCHANGED <<now, allowed, fps, webcam, reader, session>>

\* video_writer.write: on success remember the frame and advance the
\* deadline; a RuntimeError is caught nowhere and ends the thread; a write
\* after close() always raises
ScreenWrite ==
    /\ screen.pc = "write"
    /\ \E ok \in (IF screen.writer.stdin_open THEN BOOLEAN ELSE {FALSE}) :
         screen' =
           IF ok
           THEN [screen EXCEPT
                    !.pc = "top",
                    !.written = Append(@, screen.pending),
                    !.last_frame_bytes = screen.pending,
                    !.pending = Null,
                    !.next_frame_time =
                        AdvanceDeadline(@, FrameIntervalNs(fps), now),
                    !.ticks = @ + 1]
           ELSE [screen EXCEPT !.pc = "crashed", !.pending = Null]
    /\ UNCHANGED <<now, allowed, fps, webcam, reader, session>>

\* _MssScreenRecorder.stop: stop_event.set()
ScreenStop ==
    /\ screen.pc # "off"
    /\ screen.stopper = "idle"
    /\ screen' = [screen EXCEPT !.stop_event = TRUE, !.stopper = "join"]
    /\ UNCHANGED <<now, allowed, fps, webcam, reader, session>>

\* stop: self.thread.join(timeout=2.0) returns: the thread has ended, or it
\* is still inside sct.grab or video_writer.write after the two seconds (the
\* sleeps of the loop are at most 0.1 s; the clock of the model ends before
\* two seconds, so the timeout is a choice made while the thread is inside
\* one of these calls)
ScreenJoin ==
    /\ screen.stopper = "join"
    /\ screen.pc \in {"exited", "crashed", "gate", "write"}
    /\ screen' = [screen EXCEPT !.stopper = "close"]
    /\ UNCHANGED <<now, allowed, fps, webcam, reader, session>>

\* stop: self.video_writer.close(); self.sct.close()
ScreenCloseWriter ==
    /\ screen.stopper = "close"
    /\ \E exits_in_time \in BOOLEAN, exit_code \in {0, 1},
          exits_after_kill \in BOOLEAN :
         LET w == WriterClose(screen.writer, exits_in_time, exit_code,
                              exits_after_kill)
         IN  screen' = [screen EXCEPT !.writer = w, !.stopper = w.close]
    /\ UNCHANGED <<now, allowed, fps, webcam, reader, session>>

(* ------------------------- webcam reader thread ----------------------- *)

\* _reader_loop: the gate is open, so the thread enters cap.read()
ReaderPoll ==
    /\ reader.pc = "idle"
    /\ ~reader.reader_stop
    /\ allowed
    /\ reader' = [reader EXCEPT !.pc = "reading"]
    /\ UNCHANGED <<now, allowed, fps, screen, webcam, session>>

\* cap.read() returns: a frame is stored in the cell with its capture time
\* (a read takes time, so capture times never repeat), or the read failed
ReaderStore ==
    /\ reader.pc = "reading"
    /\ now > reader.latest_capture_ns
    /\ \E ret \in BOOLEAN :
         reader' = IF ret
                   THEN [reader EXCEPT !.pc = "idle", !.latest_frame = now,
                                       !.latest_capture_ns = now]
                   ELSE [reader EXCEPT !.pc = "idle"]
    /\ UNCHANGED <<now, allowed, fps, screen, webcam, session>>

(* ------------------------- webcam cadence loop ------------------------ *)

\* _consume_latest_frame: <<frame, capture_ns, stale>>
ConsumeLatestFrameNeverStale ==
    <<reader.latest_frame, reader.latest_capture_ns, FALSE>>

ConsumeLatestFrame ==
    <<reader.latest_frame, reader.latest_capture_ns,
      reader.latest_capture_ns = reader.last_consumed_capture_ns>>

\* a tick whose gate-closed sample is not marked as a duplicate
WebcamTickSampleGateUnmarked(target_ns) ==
    IF ~allowed
    THEN <<IF webcam.last_frame_bytes # Null THEN webcam.last_frame_bytes
           ELSE BlankFrame, Null, FALSE>>
    ELSE LET info == ConsumeLatestFrame IN
         IF info[3] /\ webcam.last_frame_bytes # Null
         THEN <<webcam.last_frame_bytes, info[2], TRUE>>
         ELSE <<info[1],
                IF info[2] \in {Null, 0} THEN target_ns ELSE info[2],
                FALSE>>

\* one scheduled tick of _capture_frames_loop, up to the append: the
\* <<frame_bytes, capture_ns, duplicate>> it settles on
WebcamTickSample(target_ns) ==
    IF ~allowed
    THEN <<IF webcam.last_frame_bytes # Null THEN webcam.last_frame_bytes
           ELSE BlankFrame, Null, TRUE>>
    ELSE LET info == ConsumeLatestFrame IN
         IF info[3] /\ webcam.last_frame_bytes # Null
         THEN <<webcam.last_frame_bytes, info[2], TRUE>>
         ELSE <<info[1],
                IF info[2] \in {Null, 0} THEN target_ns ELSE info[2],
                FALSE>>

\* _capture_frames_loop entry: next_frame_time = time.monotonic_ns()
WebcamLoopStart ==
    /\ webcam.pc = "start"
    /\ webcam' = [webcam EXCEPT !.pc = "top", !.next_frame_time = now,
                                !.anchor = now]
    /\ UNCHANGED <<now, allowed, fps, screen, reader, session>>

\* loop top before the deadline: sleep(min(sleep_time, 0.1)); continue
WebcamLoopTop ==
    /\ webcam.pc = "top"
    /\ webcam.stop_event \/ now < webcam.next_frame_time
    /\ webcam' =
         IF webcam.stop_event THEN [webcam EXCEPT !.pc = "exited"]
         ELSE [webcam EXCEPT !.pc = "sleep",
                  !.wake = now + Min(webcam.next_frame_time - now, SleepCapNs)]
    /\ UNCHANGED <<now, allowed, fps, screen, reader, session>>

\* time.sleep returns; back to the loop top
WebcamWake ==
    /\ webcam.pc \in {"sleep", "errsleep"}
    /\ now >= webcam.wake
    /\ webcam' = [webcam EXCEPT !.pc = "top", !.wake = Null]
    /\ UNCHANGED <<now, allowed, fps, screen, reader, session>>

\* loop top at or after the deadline: take the deadline as target, advance
\* it, evaluate the gate, consume the cell, append the record
WebcamTick ==
    /\ webcam.pc = "top"
    /\ ~webcam.stop_event
    /\ now >= webcam.next_frame_time
    /\ webcam.ticks < MaxTicks
    /\ LET target_ns == webcam.next_frame_time
           sample == WebcamTickSample(target_ns)
           frame_bytes == sample[1]
           capture_ns == sample[2]
           duplicate == sample[3]
       IN /\ webcam' = [webcam EXCEPT
                 !.pc = "write",
                 !.next_frame_time =
                     AdvanceDeadline(@, FrameIntervalNs(fps), now),
                 !.ticks = @ + 1,
                 !.last_frame_bytes = IF duplicate THEN @ ELSE frame_bytes,
                 !.frame_records = Append(@,
                     FrameRecord(webcam.frame_index, target_ns,
                                 IF capture_ns \notin {Null, 0} /\ ~duplicate
                                 THEN capture_ns ELSE Null,
                                 duplicate)),
                 !.frame_index = @ + 1,
                 !.padded_frames = IF duplicate THEN @ + 1 ELSE @,
                 !.pending = frame_bytes]
          /\ reader' = IF allowed /\ ~ConsumeLatestFrame[3]
                       THEN [reader EXCEPT !.last_consumed_capture_ns =
                                               reader.latest_capture_ns]
                       ELSE reader
    /\ UNCHANGED <<now, allowed, fps, screen, session>>

\* video_writer.write(frame_bytes); a failure lands in the except branch:
\* dropped_frames += 1, sleep(0.01); a write after close() always raises
\* (MaxDropped bounds the failures of an open writer)
WebcamWrite ==
    /\ webcam.pc = "write"
    /\ \E ok \in (IF webcam.writer.stdin_open THEN BOOLEAN ELSE {FALSE}) :
         IF ok
         THEN webcam' = [webcam EXCEPT !.pc = "top",
                            !.written = Append(@, webcam.pending),
                            !.pending = Null]
         ELSE /\ webcam.dropped_frames < MaxDropped
                    \/ ~webcam.writer.stdin_open
              /\ webcam' = [webcam EXCEPT !.pc = "errsleep",
                               !.wake = now + ErrorPauseNs,
                               !.dropped_frames = @ + 1,
                               !.pending = Null]
    /\ UNCHANGED <<now, allowed, fps, screen, reader, session>>

\* WebcamRecorder.stop: stop_event.set(); reader_stop.set()
WebcamStop ==
    /\ webcam.pc # "off"
    /\ webcam.stopper = "idle"
    /\ webcam' = [webcam EXCEPT !.stop_event = TRUE,
                                !.stopper = "join_reader"]
    /\ reader' = [reader EXCEPT !.reader_stop = TRUE]
    /\ UNCHANGED <<now, allowed, fps, screen, session>>

\* stop: self.reader_thread.join(timeout=2.0) returns: the reader has seen
\* reader_stop at its loop top, or is still inside cap.read()
WebcamJoinReader ==
    /\ webcam.stopper = "join_reader"
    /\ webcam' = [webcam EXCEPT !.stopper = "join"]
    /\ UNCHANGED <<now, allowed, fps, screen, reader, session>>

\* stop: self.thread.join(timeout=2.0) returns: the thread has ended, or it
\* is still inside video_writer.write after the two seconds
WebcamJoin ==
    /\ webcam.stopper = "join"
    /\ webcam.pc \in {"exited", "write"}
    /\ webcam' = [webcam EXCEPT !.stopper = "close"]
    /\ UNCHANGED <<now, allowed, fps, screen, reader, session>>

\* stop: self.video_writer.close(); self.cap.release()
WebcamCloseWriter ==
    /\ webcam.stopper = "close"
    /\ \E exits_in_time \in BOOLEAN, exit_code \in {0, 1},
          exits_after_kill \in BOOLEAN :
         LET w == WriterClose(webcam.writer, exits_in_time, exit_code,
                              exits_after_kill)
         IN  webcam' = [webcam EXCEPT !.writer = w, !.stopper = w.close]
    /\ UNCHANGED <<now, allowed, fps, screen, reader, session>>

(* --------------------------- specification ---------------------------- *)

Next ==
    \/ ClockAdvance
    \/ GateToggle
    \/ ScreenLoopStart
    \/ ScreenLoopTop
    \/ ScreenWake
    \/ ScreenGateClosed
    \/ ScreenGrabError
    \/ ScreenFrameEmpty
    \/ ScreenAppend
    \/ ScreenWrite
    \/ ScreenStop
    \/ ReaderPoll
    \/ ReaderStore
    \/ WebcamLoopStart
    \/ WebcamLoopTop
    \/ WebcamWake
    \/ WebcamTick
    \/ WebcamWrite
    \/ WebcamStop

\* the capture phase of a stream, up to the stop signal
Spec == Init /\ [][Next]_vars

\* a stream that is stopped while the target window stays focused: the
\* loops as above, and stop() through its join and the close of the writer
InitStop ==
    /\ Init
    /\ allowed = TRUE
    /\ fps = 20

NextStop ==
    \/ ClockAdvance
    \/ ScreenLoopStart
    \/ ScreenLoopTop
    \/ ScreenWake
    \/ ScreenGrabError
    \/ ScreenFrameEmpty
    \/ ScreenAppend
    \/ ScreenWrite
    \/ ScreenStop
    \/ ScreenJoin
    \/ ScreenCloseWriter
    \/ ReaderPoll
    \/ ReaderStore
    \/ WebcamLoopStart
    \/ WebcamLoopTop
    \/ WebcamWake
    \/ WebcamTick
    \/ WebcamWrite
    \/ WebcamStop
    \/ WebcamJoinReader
    \/ WebcamJoin
    \/ WebcamCloseWriter

SpecStop == InitStop /\ [][NextStop]_vars

\* a time.sleep that ends after the last instant of the model's clock: time
\* passes on, and the sleep returns
SleepOutlastsClock ==
    /\ now = EndNs
    /\ \/ /\ screen.pc \in {"sleep", "errsleep"}
          /\ now < screen.wake
          /\ screen' = [screen EXCEPT
                          !.pc = IF screen.pc = "sleep" THEN "gate" ELSE "top",
                          !.wake = Null]
          /\ UNCHANGED webcam
       \/ /\ webcam.pc \in {"sleep", "errsleep"}
          /\ now < webcam.wake
          /\ webcam' = [webcam EXCEPT !.pc = "top", !.wake = Null]
          /\ UNCHANGED screen
    /\ UNCHANGED <<now, allowed, fps, reader, session>>

\* the steps of the capture thread of each recorder
ScreenThread ==
    \/ ScreenLoopStart
    \/ ScreenLoopTop
    \/ ScreenWake
    \/ ScreenGrabError
    \/ ScreenFrameEmpty
    \/ ScreenAppend
    \/ ScreenWrite

WebcamThread ==
    \/ WebcamLoopStart
    \/ WebcamLoopTop
    \/ WebcamWake
    \/ WebcamTick
    \/ WebcamWrite

\* the steps of the thread that called stop()
StopCaller ==
    \/ ScreenJoin
    \/ ScreenCloseWriter
    \/ WebcamJoinReader
    \/ WebcamJoin
    \/ WebcamCloseWriter

\* the loops and stop(), with no new sample from the camera: the reader
\* thread is inside cap.read() throughout (what it stores changes the
\* is_duplicate flags of the webcam records and nothing else)
NextStopFair ==
    \/ ClockAdvance
    \/ SleepOutlastsClock
    \/ ScreenLoopStart
    \/ ScreenLoopTop
    \/ ScreenWake
    \/ ScreenGrabError
    \/ ScreenFrameEmpty
    \/ ScreenAppend
    \/ ScreenWrite
    \/ ScreenStop
    \/ ScreenJoin
    \/ ScreenCloseWriter
    \/ WebcamLoopStart
    \/ WebcamLoopTop
    \/ WebcamWake
    \/ WebcamTick
    \/ WebcamWrite
    \/ WebcamStop
    \/ WebcamJoinReader
    \/ WebcamJoin
    \/ WebcamCloseWriter

\* the threads are scheduled again and again, their blocking calls return,
\* and time passes
SpecStopFair ==
    /\ InitStop
    /\ [][NextStopFair]_vars
    /\ WF_vars(ScreenThread)
    /\ WF_vars(WebcamThread)
    /\ WF_vars(StopCaller)
    /\ WF_vars(ClockAdvance \/ SleepOutlastsClock)

(* ---------------------- post-capture functions ----------------------- *)

\* validate_capture_data(fps: int = 30)
DefaultFps == 30

\* how many input events, screen records and webcam records an input
\* holds, taken together
MaxRows == 5

\* t_ns values of the inputs: equal times, one frame interval at 30 fps
\* apart, and more than a second apart
TimeChoices == {0, 33333333, 1100000000}

\* InputEvent(t_ns, key_code, frame_ref)
InputEvent(t_ns, key_code, frame_ref) ==
    [t_ns |-> t_ns, key_code |-> key_code, frame_ref |-> frame_ref]

\* [x.t_ns for x in xs]
Times(xs) == [i \in 1..Len(xs) |-> xs[i].t_ns]

\* bisect.bisect_right(a, x, lo, hi), indices from 0
RECURSIVE BisectFrom(_, _, _, _, _)
BisectFrom(a, x, lo, hi, right) ==
    IF lo < hi
    THEN LET mid == (lo + hi) \div 2
         IN  IF (IF right THEN x < a[mid + 1] ELSE x <= a[mid + 1])
             THEN BisectFrom(a, x, lo, mid, right)
             ELSE BisectFrom(a, x, mid + 1, hi, right)
    ELSE lo

BisectLeft(a, x) == BisectFrom(a, x, 0, Len(a), FALSE)

BisectRight(a, x) == BisectFrom(a, x, 0, Len(a), TRUE)

\* the body of the loop of _assign_frame_refs: the frame_ref of one event
FrameRefFor(t_ns, screen_frames) ==
    LET idx == BisectRight(Times(screen_frames), t_ns) - 1
        clamped == IF idx < 0 THEN 0
                   ELSE IF idx >= Len(screen_frames)
                        THEN Len(screen_frames) - 1
                        ELSE idx
    IN  screen_frames[clamped + 1].frame_index

\* _assign_frame_refs(events, screen_frames): the events afterwards
AssignFrameRefsUnclamped(events, screen_frames) ==
    IF Len(events) = 0 \/ Len(screen_frames) = 0 THEN events
    ELSE [i \in 1..Len(events) |->
            IF events[i].t_ns < screen_frames[1].t_ns THEN events[i]
            ELSE [events[i] EXCEPT
                    !.frame_ref = FrameRefFor(events[i].t_ns, screen_frames)]]

AssignFrameRefs(events, screen_frames) ==
    IF Len(events) = 0 \/ Len(screen_frames) = 0 THEN events
    ELSE [i \in 1..Len(events) |->
            [events[i] EXCEPT
                !.frame_ref = FrameRefFor(events[i].t_ns, screen_frames)]]

\* sorted(timestamps): insertion of each element after the elements <= it
RECURSIVE SortedInts(_)
SortedInts(ts) ==
    IF Len(ts) = 0 THEN <<>>
    ELSE LET rest == SortedInts(SubSeq(ts, 1, Len(ts) - 1))
             x == ts[Len(ts)]
             k == Cardinality({i \in 1..Len(rest) : rest[i] <= x})
         IN  SubSeq(rest, 1, k) \o <<x>> \o SubSeq(rest, k + 1, Len(rest))

RECURSIVE SumSeq(_)
SumSeq(xs) == IF Len(xs) = 0 THEN 0 ELSE xs[1] + SumSeq(Tail(xs))

Abs(x) == IF x < 0 THEN -x ELSE x

MaxOf(S) == CHOOSE x \in S : \A y \in S : y <= x

\* the errors validate_capture_data collects, in order
ValidationErrorsWithGap(events, screen_frames, webcam_frames) ==
    (IF Len(events) > 0 /\ Times(events) # SortedInts(Times(events))
     THEN <<"Input event timestamps are not monotonic">> ELSE <<>>)
    \o
    (IF Len(screen_frames) > 0
        /\ Times(screen_frames) # SortedInts(Times(screen_frames))
     THEN <<"Screen frame timestamps are not monotonic">> ELSE <<>>)
    \o
    (IF Len(screen_frames) > 0
        /\ MaxOf({screen_frames[i].frame_index :
                    i \in 1..Len(screen_frames)}) + 1 # Len(screen_frames)
     THEN <<"Frame index gap detected">> ELSE <<>>)

ValidationErrors(events, screen_frames, webcam_frames) ==
    (IF Len(events) > 0 /\ Times(events) # SortedInts(Times(events))
     THEN <<"Input event timestamps are not monotonic">> ELSE <<>>)
    \o
    (IF Len(screen_frames) > 0
        /\ Times(screen_frames) # SortedInts(Times(screen_frames))
     THEN <<"Screen frame timestamps are not monotonic">> ELSE <<>>)

\* deviation > 0.1, where deviation = abs(avg_interval - expected) / expected
\* and avg_interval = sum(actual_intervals) / len(actual_intervals); for an
\* integer a, a / (n * expected) > 0.1 exactly when a > (n * expected) div 10
CadenceDeviatesOnePercent(screen_frames, f) ==
    LET expected == NsPerSecond \div f
        n == Len(screen_frames) - 1
        actual_intervals ==
            [i \in 1..n |-> screen_frames[i + 1].t_ns - screen_frames[i].t_ns]
    IN  Abs(SumSeq(actual_intervals) - n * expected) > (n * expected) \div 100

CadenceDeviates(screen_frames, f) ==
    LET expected == NsPerSecond \div f
        n == Len(screen_frames) - 1
        actual_intervals ==
            [i \in 1..n |-> screen_frames[i + 1].t_ns - screen_frames[i].t_ns]
    IN  Abs(SumSeq(actual_intervals) - n * expected) > (n * expected) \div 10

\* the warnings validate_capture_data collects, in order
ValidationWarnings(events, screen_frames, webcam_frames, f) ==
    (IF Len(screen_frames) > 1 /\ CadenceDeviates(screen_frames, f)
     THEN <<"Screen frame cadence deviates">> ELSE <<>>)
    \o
    (IF Len(screen_frames) > 0
        /\ MaxOf({screen_frames[i].frame_index :
                    i \in 1..Len(screen_frames)}) + 1 # Len(screen_frames)
     THEN <<"Frame index gap detected">> ELSE <<>>)
    \o
    (IF Len(webcam_frames) > 0 /\ Len(screen_frames) > 0
        /\ Abs(webcam_frames[1].t_ns - screen_frames[1].t_ns) > NsPerSecond
     THEN <<"Webcam timestamps start away from screen frames">> ELSE <<>>)

\* validate_capture_data(events, screen_frames, webcam_frames, fps)
ValidateCaptureData(events, screen_frames, webcam_frames, f) ==
    LET errors == ValidationErrors(events, screen_frames, webcam_frames)
    IN  [valid |-> Len(errors) = 0,
         errors |-> errors,
         warnings |-> ValidationWarnings(events, screen_frames,
                                         webcam_frames, f)]

\* the row write_events builds for an input event
EventRow(ev) ==
    [t_ns |-> ev.t_ns, t_capture_ns |-> Null, is_duplicate |-> "None",
     event_type |-> "input", stream |-> "input", key_code |-> ev.key_code,
     frame_ref |-> ev.frame_ref]

\* the row write_events builds for a FrameRecord of a stream
FrameRow(fr, stream) ==
    [t_ns |-> fr.t_ns, t_capture_ns |-> fr.t_capture_ns,
     is_duplicate |-> IF fr.is_duplicate THEN "True" ELSE "False",
     event_type |-> "frame", stream |-> stream, key_code |-> Null,
     frame_ref |-> fr.frame_index]

\* rows, as write_events collects them: events, screen frames, webcam frames
LedgerRows(events, screen_frames, webcam_frames) ==
    [i \in 1..Len(events) |-> EventRow(events[i])]
    \o [i \in 1..Len(screen_frames) |-> FrameRow(screen_frames[i], "screen")]
    \o [i \in 1..Len(webcam_frames) |-> FrameRow(webcam_frames[i], "webcam")]

\* kind="mergesort": on equal keys the row of the left run goes first
TakeLeftStrict(a, b) == a.t_ns < b.t_ns

TakeLeft(a, b) == a.t_ns <= b.t_ns

\* a merge that keeps one row of two with equal keys
RECURSIVE MergeRunsDropTies(_, _)
MergeRunsDropTies(l, r) ==
    IF Len(l) = 0 THEN r
    ELSE IF Len(r) = 0 THEN l
    ELSE IF l[1].t_ns = r[1].t_ns
         THEN MergeRunsDropTies(l, Tail(r))
    ELSE IF TakeLeft(l[1], r[1])
         THEN <<l[1]>> \o MergeRunsDropTies(Tail(l), r)
         ELSE <<r[1]>> \o MergeRunsDropTies(l, Tail(r))

RECURSIVE MergeRuns(_, _)
MergeRuns(l, r) ==
    IF Len(l) = 0 THEN r
    ELSE IF Len(r) = 0 THEN l
    ELSE IF TakeLeft(l[1], r[1])
         THEN <<l[1]>> \o MergeRuns(Tail(l), r)
         ELSE <<r[1]>> \o MergeRuns(l, Tail(r))

\* df.sort_values("t_ns", kind="mergesort")
RECURSIVE SortValues(_)
SortValues(rows) ==
    IF Len(rows) <= 1 THEN rows
    ELSE LET h == Len(rows) \div 2
         IN  MergeRuns(SortValues(SubSeq(rows, 1, h)),
                       SortValues(SubSeq(rows, h + 1, Len(rows))))

\* write_events: the table handed to to_parquet / to_csv; no rows, nothing
\* is written
WriteEventsTable(events, screen_frames, webcam_frames) ==
    LET rows == LedgerRows(events, screen_frames, webcam_frames)
    IN  IF Len(rows) = 0 THEN <<>> ELSE SortValues(rows)

\* metadata.json before write_metadata ran
NoMetadata == [written |-> FALSE, validation |-> NoValidation]

\* an input of the post-capture functions: events with the given times in
\* arrival order, a screen recorder (or None) with records that have a
\* frame-index gap at the end or none, webcam records
PostInput(et, has_screen, st, wt, gap) ==
    [pc |-> "drained",
     screen_recorder |-> has_screen,
     metadata |-> NoMetadata,
     events |-> [i \in 1..Len(et) |-> InputEvent(et[i], i, Null)],
     screen_frames |-> [i \in 1..Len(st) |->
         FrameRecord(IF gap /\ i = Len(st) THEN i ELSE i - 1,
                     st[i], st[i], FALSE)],
     webcam_frames |->
         [i \in 1..Len(wt) |-> FrameRecord(i - 1, wt[i], wt[i], FALSE)],
     validation |-> NoValidation,
     ledger |-> <<>>]

InitPost ==
    /\ now = StartNs
    /\ allowed = TRUE
    /\ fps = DefaultFps
    /\ screen = NewRecorder(FALSE)
    /\ webcam = NewRecorder(FALSE)
    /\ reader = [pc |-> "off", reader_stop |-> FALSE, latest_frame |-> Null,
                 latest_capture_ns |-> Null, last_consumed_capture_ns |-> Null]
    /\ \E ne, ns, nw \in 0..MaxRows :
          /\ ne + ns + nw <= MaxRows
          /\ \E et \in [1..ne -> TimeChoices], st \in [1..ns -> TimeChoices],
                wt \in [1..nw -> TimeChoices], gap \in BOOLEAN,
                has_screen \in BOOLEAN :
                /\ has_screen \/ ns = 0
                /\ session = PostInput(et, has_screen, st, wt, gap)

\* if screen_recorder and screen_recorder.frame_records: _assign_frame_refs
SessionCorrelate ==
    /\ session.pc = "drained"
    /\ session' = [session EXCEPT
                     !.pc = "correlated",
                     !.events = AssignFrameRefs(@, session.screen_frames)]
    /\ UNCHANGED <<now, allowed, fps, screen, webcam, reader>>

\* validation = validate_capture_data(...)
SessionValidate ==
    /\ session.pc = "correlated"
    /\ session' = [session EXCEPT
                     !.pc = "validated",
                     !.validation =
                         ValidateCaptureData(session.events,
                             session.screen_frames, session.webcam_frames, fps)]
    /\ UNCHANGED <<now, allowed, fps, screen, webcam, reader>>

\* if screen_recorder or events: write_events(events, screen frames,
\* webcam_frames=...)
SessionWriteEvents ==
    /\ session.pc = "validated"
    /\ session' = [session EXCEPT
                     !.pc = "written",
                     !.ledger =
                         IF session.screen_recorder \/ Len(session.events) > 0
                         THEN WriteEventsTable(session.events,
                                  session.screen_frames, session.webcam_frames)
                         ELSE @]
    /\ UNCHANGED <<now, allowed, fps, screen, webcam, reader>>

\* write_metadata(..., validation=validation, ...); the trajectories are
\* those of the segmenter below
SessionWriteMetadata ==
    /\ session.pc = "written"
    /\ session' = [session EXCEPT
                     !.pc = "persisted",
                     !.metadata = [written |-> TRUE,
                                   validation |-> session.validation]]
    /\ UNCHANGED <<now, allowed, fps, screen, webcam, reader>>

NextPost ==
    \/ SessionCorrelate
    \/ SessionValidate
    \/ SessionWriteEvents
    \/ SessionWriteMetadata

SpecPost == InitPost /\ [][NextPost]_vars

(* --------------------- validation of the cadence ---------------------- *)

\* how many screen records a cadence input holds
MaxCadenceFrames == 4

\* t_ns of the screen records: 0, 33, 67, 100 ns; the same in ms; and the
\* two intervals on either side of a 10% deviation from int(1e9 / 30)
CadenceTimes ==
    {0, 33, 67, 100, 33000000, 67000000, 100000000, 36666666, 36666667}

InitCadence ==
    /\ now = StartNs
    /\ allowed = TRUE
    /\ fps = DefaultFps
    /\ screen = NewRecorder(FALSE)
    /\ webcam = NewRecorder(FALSE)
    /\ reader = [pc |-> "off", reader_stop |-> FALSE, latest_frame |-> Null,
                 latest_capture_ns |-> Null, last_consumed_capture_ns |-> Null]
    /\ \E ns \in 0..MaxCadenceFrames :
          \E st \in [1..ns -> CadenceTimes] :
              session = PostInput(<<>>, TRUE, st, <<>>, FALSE)

\* the post-capture steps of a session that has screen records only
SpecCadence == InitCadence /\ [][NextPost]_vars

(* ------------------------ trajectory segmenter ------------------------ *)

\* segment_trajectories(trajectory_duration_s=60.0, overlap_s=5.0)
DurationS == 60

OverlapS == 5

\* Every quantity segment_trajectories computes from its times is a sum, a
\* minimum or a comparison of them, so its windows over times that are whole
\* seconds are, second for second, its windows over the same times in ns.
\* The segmenter is run on whole seconds: 130 s in ns does not fit a 32-bit
\* integer.

\* <<trajectory_duration_s, overlap_s>>: the session's configuration, a
\* shorter window, and two with overlap_s >= trajectory_duration_s
SegConfigs == {<<DurationS, OverlapS>>, <<20, 10>>, <<5, 5>>, <<5, 20>>}

\* t_ns of the events and of the screen records given to the segmenter
SegTimes == {0, 30, 58, 110, 130}

\* how many iterations of the window loop are recorded; a loop that runs
\* on after that many keeps running, its locals as they were by then
MaxWindows == 14

\* the elements of a set of times, ascending
RECURSIVE SeqOfSet(_)
SeqOfSet(S) ==
    IF S = {} THEN <<>>
    ELSE LET m == CHOOSE x \in S : \A y \in S : x <= y
         IN  <<m>> \o SeqOfSet(S \ {m})

\* a window that is open at its end: [x for x in xs if lo <= x.t_ns < hi]
InWindowHalfOpen(xs, lo, hi) ==
    {i \in 1..Len(xs) : lo <= xs[i].t_ns /\ xs[i].t_ns < hi}

\* [x for x in xs if lo <= x.t_ns <= hi]
InWindow(xs, lo, hi) ==
    {i \in 1..Len(xs) : lo <= xs[i].t_ns /\ xs[i].t_ns <= hi}

\* len(xs) - len([x for x in xs if x.t_ns >= current_start])
StartIdx(xs, current_start) ==
    Len(xs) - Cardinality({i \in 1..Len(xs) : xs[i].t_ns >= current_start})

\* current_start += trajectory_duration_ns - overlap_ns
NextStartNoOverlap(current_start, duration, overlap) ==
    current_start + duration

NextStart(current_start, duration, overlap) ==
    current_start + duration - overlap

\* segment_trajectories at its call: the arguments, no local set yet
SegmenterCall(events, screen_frames, duration, overlap) ==
    [pc |-> "seg_entry",
     events |-> events,
     screen_frames |-> screen_frames,
     trajectory_duration |-> duration,
     overlap |-> overlap,
     start_time |-> Null,
     end_time |-> Null,
     current_start |-> Null,
     windows |-> 0,             \* recorded iterations of the while loop
     trajectories |-> <<>>]

InitSeg ==
    /\ now = StartNs
    /\ allowed = TRUE
    /\ fps = DefaultFps
    /\ screen = NewRecorder(FALSE)
    /\ webcam = NewRecorder(FALSE)
    /\ reader = [pc |-> "off", reader_stop |-> FALSE, latest_frame |-> Null,
                 latest_capture_ns |-> Null, last_consumed_capture_ns |-> Null]
    /\ \E es \in SUBSET SegTimes, fs \in SUBSET SegTimes, cfg \in SegConfigs :
          LET et == SeqOfSet(es)
              ft == SeqOfSet(fs)
          IN  session = SegmenterCall(
                  [i \in 1..Len(et) |-> InputEvent(et[i], i, Null)],
                  [i \in 1..Len(ft) |-> FrameRecord(i - 1, ft[i], ft[i], FALSE)],
                  cfg[1], cfg[2])

\* if not events or not screen_frames: return []; else the locals are set
SegmentEntry ==
    /\ session.pc = "seg_entry"
    /\ session' =
         IF Len(session.events) = 0 \/ Len(session.screen_frames) = 0
         THEN [session EXCEPT !.pc = "returned"]
         ELSE LET ts == {session.events[i].t_ns : i \in 1..Len(session.events)}
                  lo == CHOOSE x \in ts : \A y \in ts : x <= y
              IN  [session EXCEPT !.pc = "seg_test",
                                  !.start_time = lo,
                                  !.end_time = MaxOf(ts),
                                  !.current_start = lo]
    /\ UNCHANGED <<now, allowed, fps, screen, webcam, reader>>

\* while current_start < end_time_ns: ...; return trajectories
SegmentLoopTest ==
    /\ session.pc = "seg_test"
    /\ session' = [session EXCEPT
                     !.pc = IF session.current_start < session.end_time
                            THEN "seg_body" ELSE "returned"]
    /\ UNCHANGED <<now, allowed, fps, screen, webcam, reader>>

\* the body of the while loop
SegmentWindow ==
    /\ session.pc = "seg_body"
    /\ LET current_start == session.current_start
           current_end == Min(current_start + session.trajectory_duration,
                              session.end_time)
           traj_events == InWindow(session.events, current_start, current_end)
           traj_frames ==
               InWindow(session.screen_frames, current_start, current_end)
           trajectory ==
               [trajectory_id |-> Len(session.trajectories),
                start_time_ns |-> current_start,
                end_time_ns |-> current_end,
                event_count |-> Cardinality(traj_events),
                frame_count |-> Cardinality(traj_frames),
                events_start_idx |-> StartIdx(session.events, current_start),
                frames_start_idx |->
                    StartIdx(session.screen_frames, current_start),
                overlap_with_previous |->
                    IF current_start > session.start_time
                    THEN session.overlap ELSE 0]
       IN  session' =
             IF session.windows < MaxWindows
             THEN [session EXCEPT
                     !.pc = "seg_test",
                     !.trajectories =
                         IF traj_events # {} /\ traj_frames # {}
                         THEN Append(@, trajectory) ELSE @,
                     !.current_start =
                         NextStart(@, session.trajectory_duration,
                                   session.overlap),
                     !.windows = @ + 1]
             ELSE [session EXCEPT !.pc = "seg_test"]
    /\ UNCHANGED <<now, allowed, fps, screen, webcam, reader>>

NextSeg ==
    \/ SegmentEntry
    \/ SegmentLoopTest
    \/ SegmentWindow

SpecSeg == InitSeg /\ [][NextSeg]_vars

\* the segmenter is a sequential function: it runs on while it can
SpecSegFair == SpecSeg /\ WF_vars(NextSeg)

(* ------------------------- run_capture_session ------------------------ *)

\* how many input callbacks the listeners deliver in a run
MaxCallbacks == 3

\* InputLogger._emit: if not self.capture_allowed_fn(): return
EmitAlways(gate) == TRUE

EmitAllowed(gate) == gate

\* run_capture_session with its recorders constructed: screen_recorder and
\* webcam_recorder are objects or None.  A recorder is here its lifecycle
\* ("constructed", "running", "failed" when start() raised, "stopped",
\* "stop_failed" when stop() raised); its loop is that of the stream
\* specifications and hands no records to this one.
SessionAtStart(has_screen, has_webcam) ==
    [pc |-> "start_input",
     stop_event |-> FALSE,
     left_by |-> "none",         \* how the try block was left
     capture_error |-> "none",   \* the exception caught by the try block
     input_logger |-> "constructed",
     screen_recorder |-> has_screen,
     screen_state |-> IF has_screen THEN "constructed" ELSE "none",
     webcam_recorder |-> has_webcam,
     webcam_state |-> IF has_webcam THEN "constructed" ELSE "none",
     webcam_writer |-> NewWriter,
     screen_writer |-> NewWriter,
     callbacks |-> 0,            \* listener callbacks so far
     events_q |-> <<>>,
     events |-> <<>>,
     screen_frames |-> <<>>,
     webcam_frames |-> <<>>,
     validation |-> NoValidation,
     ledger |-> <<>>,
     metadata |-> NoMetadata]

InitSession ==
    /\ now = StartNs
    /\ allowed \in BOOLEAN
    /\ fps = DefaultFps
    /\ screen = NewRecorder(FALSE)
    /\ webcam = NewRecorder(FALSE)
    /\ reader = [pc |-> "off", reader_stop |-> FALSE, latest_frame |-> Null,
                 latest_capture_ns |-> Null, last_consumed_capture_ns |-> Null]
    /\ \E has_screen, has_webcam \in BOOLEAN :
          session = SessionAtStart(has_screen, has_webcam)

\* the try block of run_capture_session is being executed
InTry == session.pc \in {"start_input", "start_screen", "start_webcam", "waiting"}

\* handle_sigint / on_hotkey_press: stop_event.set()
SessionSignal ==
    /\ InTry
    /\ ~session.stop_event
    /\ session' = [session EXCEPT !.stop_event = TRUE]
    /\ UNCHANGED <<now, allowed, fps, screen, webcam, reader>>

\* a keyboard or mouse callback: InputLogger._emit
InputCallback ==
    /\ session.input_logger = "running"
    /\ session.callbacks < MaxCallbacks
    /\ session' = [session EXCEPT
                     !.callbacks = @ + 1,
                     !.events_q =
                         IF EmitAllowed(allowed)
                         THEN Append(@, InputEvent(now, session.callbacks + 1,
                                                   Null))
                         ELSE @]
    /\ UNCHANGED <<now, allowed, fps, screen, webcam, reader>>

\* input_logger.start()
SessionStartInput ==
    /\ session.pc = "start_input"
    /\ session' = [session EXCEPT !.pc = "start_screen",
                                  !.input_logger = "running"]
    /\ UNCHANGED <<now, allowed, fps, screen, webcam, reader>>

\* if screen_recorder: screen_recorder.start(); _init_writer may raise, and
\* the exception is caught by `except BaseException` of the try block
SessionStartScreen ==
    /\ session.pc = "start_screen"
    /\ \E primed \in BOOLEAN :
         session' =
           IF ~session.screen_recorder
           THEN [session EXCEPT !.pc = "start_webcam"]
           ELSE IF primed
           THEN [session EXCEPT !.pc = "start_webcam",
                                !.screen_state = "running"]
           ELSE [session EXCEPT !.pc = "stop_webcam",
                                !.screen_state = "failed",
                                !.capture_error = "screen",
                                !.left_by = "exception",
                                !.stop_event = TRUE]
    /\ UNCHANGED <<now, allowed, fps, screen, webcam, reader>>

\* if webcam_recorder: webcam_recorder.start(); _init_devices may raise
SessionStartWebcam ==
    /\ session.pc = "start_webcam"
    /\ \E primed \in BOOLEAN :
         session' =
           IF ~session.webcam_recorder
           THEN [session EXCEPT !.pc = "waiting"]
           ELSE IF primed
           THEN [session EXCEPT !.pc = "waiting",
                                !.webcam_state = "running"]
           ELSE [session EXCEPT !.pc = "stop_webcam",
                                !.webcam_state = "failed",
                                !.capture_error = "webcam",
                                !.left_by = "exception",
                                !.stop_event = TRUE]
    /\ UNCHANGED <<now, allowed, fps, screen, webcam, reader>>

\* while not stop_event.is_set(): break when the duration has elapsed, else
\* sleep(0.1); then finally: stop_event.set()
SessionWait ==
    /\ session.pc = "waiting"
    /\ \E elapsed \in BOOLEAN :
         /\ session.stop_event \/ elapsed
         /\ session' = [session EXCEPT
                          !.pc = "stop_webcam",
                          !.left_by = IF session.stop_event THEN "signal"
                                      ELSE "duration",
                          !.stop_event = TRUE]
    /\ UNCHANGED <<now, allowed, fps, screen, webcam, reader>>

\* finally: if webcam_recorder: webcam_recorder.stop(); the close of the
\* writer of a started recorder may raise, and nothing catches that
SessionStopWebcam ==
    /\ session.pc = "stop_webcam"
    /\ \E exits_in_time \in BOOLEAN, exit_code \in {0, 1},
          exits_after_kill \in BOOLEAN :
         LET w == WriterClose(session.webcam_writer, exits_in_time, exit_code,
                              exits_after_kill)
         IN  session' =
               IF ~session.webcam_recorder
               THEN [session EXCEPT !.pc = "stop_screen"]
               ELSE IF session.webcam_state # "running"
               THEN [session EXCEPT !.pc = "stop_screen",
                                    !.webcam_state = "stopped"]
               ELSE IF w.close = "raised"
               THEN [session EXCEPT !.pc = "raised",
                                    !.webcam_writer = w,
                                    !.webcam_state = "stop_failed"]
               ELSE [session EXCEPT !.pc = "stop_screen",
                                    !.webcam_writer = w,
                                    !.webcam_state = "stopped"]
    /\ UNCHANGED <<now, allowed, fps, screen, webcam, reader>>

\* finally: if screen_recorder: screen_recorder.stop()
SessionStopScreen ==
    /\ session.pc = "stop_screen"
    /\ \E exits_in_time \in BOOLEAN, exit_code \in {0, 1},
          exits_after_kill \in BOOLEAN :
         LET w == WriterClose(session.screen_writer, exits_in_time, exit_code,
                              exits_after_kill)
         IN  session' =
               IF ~session.screen_recorder
               THEN [session EXCEPT !.pc = "stop_input"]
               ELSE IF session.screen_state # "running"
               THEN [session EXCEPT !.pc = "stop_input",
                                    !.screen_state = "stopped"]
               ELSE IF w.close = "raised"
               THEN [session EXCEPT !.pc = "raised",
                                    !.screen_writer = w,
                                    !.screen_state = "stop_failed"]
               ELSE [session EXCEPT !.pc = "stop_input",
                                    !.screen_writer = w,
                                    !.screen_state = "stopped"]
    /\ UNCHANGED <<now, allowed, fps, screen, webcam, reader>>

\* finally: input_logger.stop(); hotkey_listener.stop()
SessionStopInput ==
    /\ session.pc = "stop_input"
    /\ session' = [session EXCEPT !.pc = "drain",
                                  !.input_logger = "stopped"]
    /\ UNCHANGED <<now, allowed, fps, screen, webcam, reader>>

\* while not events_q.empty(): events.append(events_q.get())
SessionDrain ==
    /\ session.pc = "drain"
    /\ session' = [session EXCEPT !.pc = "drained",
                                  !.events = session.events_q,
                                  !.events_q = <<>>]
    /\ UNCHANGED <<now, allowed, fps, screen, webcam, reader>>

\* if capture_error: raise capture_error; return {...}
SessionReturn ==
    /\ session.pc = "persisted"
    /\ session' = [session EXCEPT
                     !.pc = IF session.capture_error # "none"
                            THEN "raised" ELSE "returned"]
    /\ UNCHANGED <<now, allowed, fps, screen, webcam, reader>>

NextSession ==
    \/ ClockAdvance
    \/ GateToggle
    \/ SessionSignal
    \/ InputCallback
    \/ SessionStartInput
    \/ SessionStartScreen
    \/ SessionStartWebcam
    \/ SessionWait
    \/ SessionStopWebcam
    \/ SessionStopScreen
    \/ SessionStopInput
    \/ SessionDrain
    \/ SessionCorrelate
    \/ SessionValidate
    \/ SessionWriteEvents
    \/ SessionWriteMetadata
    \/ SessionReturn

SpecSession == InitSession /\ [][NextSession]_vars

(* ------------------- the two listeners of InputLogger ----------------- *)

\* keyboard.Listener and mouse.Listener: one thread each, both calling _emit
Listeners == {"keyboard", "mouse"}

\* run_capture_session without recorders; in_emit holds, for each listener
\* thread, the InputEvent it has built in _emit and not yet put (or <<>>)
InitListeners ==
    /\ now = StartNs
    /\ allowed \in BOOLEAN
    /\ fps = DefaultFps
    /\ screen = NewRecorder(FALSE)
    /\ webcam = NewRecorder(FALSE)
    /\ reader = [pc |-> "off", reader_stop |-> FALSE, latest_frame |-> Null,
                 latest_capture_ns |-> Null, last_consumed_capture_ns |-> Null]
    /\ session = [in_emit |-> [l \in Listeners |-> <<>>]]
                    @@ SessionAtStart(FALSE, FALSE)

\* _emit up to the put: the gate is read, and if it is open the InputEvent
\* is built with t_ns = time.monotonic_ns()
ListenerBuild ==
    /\ session.input_logger = "running"
    /\ session.callbacks < MaxCallbacks
    /\ \E l \in Listeners :
         /\ session.in_emit[l] = <<>>
         /\ session' = [session EXCEPT
                          !.callbacks = @ + 1,
                          !.in_emit[l] =
                              IF EmitAllowed(allowed)
                              THEN <<InputEvent(now, session.callbacks + 1,
                                                Null)>>
                              ELSE @]
    /\ UNCHANGED <<now, allowed, fps, screen, webcam, reader>>

\* _emit: self.events.put(ev)
ListenerPut ==
    /\ \E l \in Listeners :
         /\ session.in_emit[l] # <<>>
         /\ session' = [session EXCEPT
                          !.in_emit[l] = <<>>,
                          !.events_q = Append(@, session.in_emit[l][1])]
    /\ UNCHANGED <<now, allowed, fps, screen, webcam, reader>>

\* a get that takes the newest item of the queue
QueueGetNewest(q) ==
    [item |-> q[Len(q)], rest |-> SubSeq(q, 1, Len(q) - 1)]

\* events_q.get() on a queue.Queue that is not empty: the oldest item
QueueGet(q) ==
    [item |-> Head(q), rest |-> Tail(q)]

\* one iteration of the drain loop, the listener threads running beside it:
\* events_q.empty() is False; events.append(events_q.get())
SessionDrainGet ==
    /\ session.pc = "drain"
    /\ session.events_q # <<>>
    /\ session' = [session EXCEPT
                     !.events = Append(@, QueueGet(session.events_q).item),
                     !.events_q = QueueGet(session.events_q).rest]
    /\ UNCHANGED <<now, allowed, fps, screen, webcam, reader>>

\* the drain loop ends: events_q.empty() is True
SessionDrainEnd ==
    /\ session.pc = "drain"
    /\ session.events_q = <<>>
    /\ session' = [session EXCEPT !.pc = "drained"]
    /\ UNCHANGED <<now, allowed, fps, screen, webcam, reader>>

NextListeners ==
    \/ ClockAdvance
    \/ SessionSignal
    \/ ListenerBuild
    \/ ListenerPut
    \/ SessionStartInput
    \/ SessionStartScreen
    \/ SessionStartWebcam
    \/ SessionWait
    \/ SessionStopWebcam
    \/ SessionStopScreen
    \/ SessionStopInput
    \/ SessionDrainGet
    \/ SessionDrainEnd
    \/ SessionCorrelate
    \/ SessionValidate
    \/ SessionWriteEvents
    \/ SessionWriteMetadata
    \/ SessionReturn

\* the session with the callbacks of its two listener threads interleaved,
\* the target window focused or not for the whole of it
SpecListeners == InitListeners /\ [][NextListeners]_vars

(* ------------------------- stream loop claims ------------------------- *)

Streams == {screen, webcam}

\* the loop is between two iterations, or has ended
AtBoundary(r) == r.pc \in {"top", "exited", "crashed"}

Running(r) == r.pc \notin {"off", "start"}

\* appended records with is_duplicate = false
RealCount(r) ==
    Cardinality({i \in 1..Len(r.frame_records) :
                    ~r.frame_records[i].is_duplicate})

\* C1: in every stream loop, between iterations and after the loop ended,
\* real + duplicate + dropped equals the number of ticks that elapsed.
C1_TickAccounting ==
    \A r \in Streams :
        AtBoundary(r) =>
            RealCount(r) + r.padded_frames + r.dropped_frames = r.ticks

\* C2: after N ticks a stream has appended exactly N records, with
\* frame_index 0, 1, ..., N-1.
C2_RecordPerTick ==
    \A r \in Streams :
        AtBoundary(r) =>
            /\ Len(r.frame_records) = r.ticks
            /\ \A i \in 1..Len(r.frame_records) :
                   r.frame_records[i].frame_index = i - 1

\* C3: a tick on which the gate returned false appends exactly one record,
\* a duplicate with no capture time, whose frame_index continues the sequence.
C3_GateClosedTickPads ==
    [][\A name \in {"screen", "webcam"} :
          LET r == IF name = "screen" THEN screen ELSE webcam
              q == IF name = "screen" THEN screen' ELSE webcam'
          IN  (r.pc \in {"top", "gate"} /\ ~allowed
                  /\ q.ticks = r.ticks + 1) =>
                /\ Len(q.frame_records) = Len(r.frame_records) + 1
                /\ LET new == q.frame_records[Len(q.frame_records)]
                   IN  /\ new.is_duplicate
                       /\ new.t_capture_ns = Null
                       /\ new.frame_index =
                            IF Len(r.frame_records) = 0 THEN 0
                            ELSE r.frame_records[Len(r.frame_records)]
                                    .frame_index + 1]_vars

\* C4: the k-th deadline of a stream loop is anchor + k * interval: the next
\* deadline is advanced by one interval per tick and never re-anchored.
C4_DeadlineAnchored ==
    \A r \in Streams :
        Running(r) =>
            r.next_frame_time = r.anchor + r.ticks * FrameIntervalNs(fps)

\* C4 witness: a screen loop that has ticked three times, once at least with
\* the gate closed and once with a record, dropped a frame on a failed grab,
\* and is now late by more than one interval.
C4_Witness ==
    /\ screen.ticks = 3
    /\ Len(screen.frame_records) = 1
    /\ Len(screen.written) = 1
    /\ screen.dropped_frames = 1
    /\ screen.pc = "errsleep"
    /\ now > screen.next_frame_time + FrameIntervalNs(fps)

\* C5: consecutive records of a stream are exactly one interval apart in t_ns.
C5_TargetCadence ==
    \A r \in Streams :
        \A i \in 1..(Len(r.frame_records) - 1) :
            r.frame_records[i + 1].t_ns - r.frame_records[i].t_ns
                = FrameIntervalNs(fps)

(* ------------------------ post-capture claims ------------------------- *)

NonDecreasing(ts) == \A i \in 1..(Len(ts) - 1) : ts[i] <= ts[i + 1]

Correlated ==
    session.pc \in {"correlated", "validated", "written", "persisted"}

Validated == session.pc \in {"validated", "written", "persisted"}

Written == session.pc \in {"written", "persisted"}

\* screen records with targets 0, 100, 200 ns
ExampleFrames ==
    <<FrameRecord(0, 0, 0, FALSE), FrameRecord(1, 100, 100, FALSE),
      FrameRecord(2, 200, 200, FALSE)>>

\* C6: with the screen records sorted by t_ns, every event's frame_ref is
\* the frame_index of the last record whose t_ns <= the event's t_ns, and of
\* the first record when there is none (events after the last record get the
\* last record's index); targets [0,100,200]: 150 -> 1, -5 -> 0, 10000 -> 2.
C6_FrameRefLastNotAfter ==
    /\ FrameRefFor(150, ExampleFrames) = 1
    /\ FrameRefFor(-5, ExampleFrames) = 0
    /\ FrameRefFor(10000, ExampleFrames) = 2
    /\ (Correlated /\ Len(session.screen_frames) > 0
           /\ NonDecreasing(Times(session.screen_frames))) =>
         \A i \in 1..Len(session.events) :
            LET fs == session.screen_frames
                notAfter == {k \in 1..Len(fs) :
                                fs[k].t_ns <= session.events[i].t_ns}
            IN  session.events[i].frame_ref =
                  fs[IF notAfter = {} THEN 1 ELSE MaxOf(notAfter)].frame_index

\* C6 witness: correlated events, one before the first record and one
\* exactly at the time of a later record.
C6_Witness ==
    /\ session.pc = "correlated"
    /\ Len(session.screen_frames) >= 2
    /\ NonDecreasing(Times(session.screen_frames))
    /\ \E i, j \in 1..Len(session.events) :
          /\ session.events[i].t_ns < session.screen_frames[1].t_ns
          /\ session.events[i].frame_ref = 0
          /\ session.events[j].t_ns = session.screen_frames[2].t_ns
          /\ session.events[j].t_ns > session.screen_frames[1].t_ns
          /\ session.events[j].frame_ref >= 1

\* the rows write_events was given, before the sort
SessionRows ==
    LedgerRows(session.events, session.screen_frames, session.webcam_frames)

\* row a was collected before row b
CollectedBefore(a, b) ==
    \E i, j \in 1..Len(SessionRows) :
        i < j /\ SessionRows[i] = a /\ SessionRows[j] = b

\* C7: the merged ledger ascends in t_ns, and rows of one stream with equal
\* t_ns keep the order they had in that stream.
C7_LedgerSortedStable ==
    Written =>
        \A i, j \in 1..Len(session.ledger) :
            i < j =>
                LET a == session.ledger[i]
                    b == session.ledger[j]
                IN  /\ a.t_ns <= b.t_ns
                    /\ (a.stream = b.stream /\ a.t_ns = b.t_ns)
                          => CollectedBefore(a, b)

\* C7 witness: a ledger the sort had to reorder, holding two rows of one
\* stream with equal t_ns and a row of another stream at that time.
C7_Witness ==
    /\ Written
    /\ session.ledger # SessionRows
    /\ \E i, j, k \in 1..Len(session.ledger) :
          /\ i < j
          /\ session.ledger[i].stream = session.ledger[j].stream
          /\ session.ledger[i].t_ns = session.ledger[j].t_ns
          /\ session.ledger[k].stream # session.ledger[i].stream
          /\ session.ledger[k].t_ns = session.ledger[i].t_ns

\* C8: sorting the merged ledger again leaves its row order unchanged.
C8_MergeIdempotent ==
    Written => SortValues(session.ledger) = session.ledger

\* C8 witness: a ledger of all three streams with equal t_ns across and
\* within streams, which differs from the order the rows were collected in.
C8_Witness ==
    /\ Written
    /\ Len(session.events) >= 1
    /\ Len(session.screen_frames) >= 1
    /\ Len(session.webcam_frames) >= 1
    /\ session.ledger # SessionRows
    /\ \E i \in 1..(Len(session.ledger) - 2) :
          /\ session.ledger[i].t_ns = session.ledger[i + 1].t_ns
          /\ session.ledger[i].t_ns = session.ledger[i + 2].t_ns
          /\ session.ledger[i].stream = session.ledger[i + 1].stream
          /\ session.ledger[i].stream # session.ledger[i + 2].stream

\* C9: a stream whose t_ns sequence is not non-decreasing (input events,
\* screen frames or webcam frames) makes the result invalid, with an error.
C9_MonotonicityAllStreams ==
    Validated =>
        ((\/ ~NonDecreasing(Times(session.events))
          \/ ~NonDecreasing(Times(session.screen_frames))
          \/ ~NonDecreasing(Times(session.webcam_frames)))
            => /\ session.validation.valid = FALSE
               /\ Len(session.validation.errors) > 0)

MonotonicityErrors ==
    {"Input event timestamps are not monotonic",
     "Screen frame timestamps are not monotonic"}

\* C10: the result is invalid only if a t_ns sequence is not non-decreasing;
\* the only errors are monotonicity errors, valid says there is none, and a
\* cadence deviation, a frame-index gap and a start skew above one second
\* each add a warning and leave valid alone.
C10_InvalidOnlyIfNotMonotonic ==
    Validated =>
        LET v == session.validation
            fs == session.screen_frames
            ws == session.webcam_frames
            has(w) == \E i \in 1..Len(v.warnings) : v.warnings[i] = w
        IN  /\ v.valid = FALSE =>
                  \/ ~NonDecreasing(Times(session.events))
                  \/ ~NonDecreasing(Times(fs))
            /\ \A i \in 1..Len(v.errors) : v.errors[i] \in MonotonicityErrors
            /\ v.valid = (Len(v.errors) = 0)
            /\ (Len(fs) > 1 /\ CadenceDeviates(fs, fps))
                  => has("Screen frame cadence deviates")
            /\ (Len(fs) > 0 /\ \E i \in 1..Len(fs) :
                                  fs[i].frame_index + 1 > Len(fs))
                  => has("Frame index gap detected")
            /\ (Len(fs) > 0 /\ Len(ws) > 0
                  /\ Abs(ws[1].t_ns - fs[1].t_ns) > NsPerSecond)
                  => has("Webcam timestamps start away from screen frames")

\* C10 witness: a valid result that carries all three warnings.
C10_Witness ==
    /\ session.pc = "validated"
    /\ session.validation.valid
    /\ Len(session.validation.warnings) = 3
    /\ Len(session.validation.errors) = 0

(* -------------------------- segmenter claims -------------------------- *)

SegReturned == session.pc = "returned"

\* the step between window starts
SegStep == session.trajectory_duration - session.overlap

\* the starts start + j*(duration - overlap), j = 0, 1, ..., that are < end
SegWindowStarts ==
    {s \in {session.start_time + j * SegStep : j \in 0..MaxWindows} :
        s < session.end_time}

SegWindowEnd(s) == Min(s + session.trajectory_duration, session.end_time)

\* the window starting at s holds an event and a screen record
SegPopulated(s) ==
    /\ InWindow(session.events, s, SegWindowEnd(s)) # {}
    /\ InWindow(session.screen_frames, s, SegWindowEnd(s)) # {}

\* C11: with overlap < duration the trajectories are, in ascending order, the
\* windows [s, min(s + duration, end)] for the starts s = start + j*(duration
\* - overlap) < end that hold an event and a frame; with duration 60 s,
\* overlap 5 s, a 130 s event span and every window holding both, there are
\* exactly 3, starting 0, 55 and 110 s after the first event, the last
\* ending at end.
C11_SegmentWindows ==
    (SegReturned /\ Len(session.events) > 0 /\ Len(session.screen_frames) > 0
        /\ SegStep > 0) =>
      LET tr == session.trajectories
          n == Len(tr)
      IN  /\ {<<tr[i].start_time_ns, tr[i].end_time_ns>> : i \in 1..n}
               = {<<s, SegWindowEnd(s)>> :
                     s \in {w \in SegWindowStarts : SegPopulated(w)}}
          /\ \A i \in 1..(n - 1) : tr[i].start_time_ns < tr[i + 1].start_time_ns
          /\ (/\ session.trajectory_duration = 60
              /\ session.overlap = 5
              /\ session.end_time - session.start_time = 130
              /\ \A s \in SegWindowStarts : SegPopulated(s))
               => /\ n = 3
                  /\ tr[1].start_time_ns = session.start_time
                  /\ tr[2].start_time_ns = session.start_time + 55
                  /\ tr[3].start_time_ns = session.start_time + 110
                  /\ tr[3].end_time_ns = session.end_time

\* C11 witness: duration 60 s, overlap 5 s, events spanning 130 s, three
\* trajectories returned, the last shorter than the duration.
C11_Witness ==
    /\ SegReturned
    /\ session.trajectory_duration = 60
    /\ session.overlap = 5
    /\ session.end_time - session.start_time = 130
    /\ Len(session.trajectories) = 3
    /\ session.trajectories[3].end_time_ns
          - session.trajectories[3].start_time_ns = 20

\* C12: segment_trajectories returns, whatever its configuration and input.
C12_SegmenterTerminates == <>SegReturned

\* with overlap < duration the window loop ends within the bound
SegTerminatesWhenStepPositive ==
    (session.trajectory_duration > session.overlap) ~> SegReturned

(* --------------------------- session claims --------------------------- *)

\* C13: a callback that fires while the gate returns false enqueues nothing
\* and leaves the event log as it is; the log grows only by the event of a
\* callback that ran with the gate open, so nothing is held for later.
C13_GateClosedDropsEvents ==
    [][LET fired == session'.callbacks = session.callbacks + 1
       IN  /\ (fired /\ ~allowed) =>
                 /\ session'.events_q = session.events_q
                 /\ session'.events = session.events
           /\ Len(session'.events_q) > Len(session.events_q) =>
                 /\ fired
                 /\ allowed
                 /\ session'.events_q =
                      Append(session.events_q,
                             InputEvent(now, session'.callbacks, Null))]_vars

\* C13 witness: the gate has reopened after the first callback was dropped,
\* and the log holds the event of the second callback only.
C13_Witness ==
    /\ allowed
    /\ session.callbacks = 2
    /\ Len(session.events_q) = 1
    /\ session.events_q[1].key_code = 2

\* C14: when the priming of a stream failed at start, the session leaves its
\* capture phase only by the stop signal or the duration limit.
C14_PrimingFailureKeepsSession ==
    (session.screen_state = "failed" \/ session.webcam_state = "failed") =>
        session.left_by \in {"none", "signal", "duration"}

\* C15: when the session has ended, also after a stop() that raised, the
\* input logger and every started recorder have been stopped and the ledger
\* and the metadata have been written.
C15_TeardownNotBlocked ==
    session.pc \in {"returned", "raised"} =>
        /\ session.input_logger = "stopped"
        /\ session.screen_state # "running"
        /\ session.webcam_state # "running"
        /\ session.metadata.written

(* ----------------------- persistence claims --------------------------- *)

\* the ledger holds every collected row once
LedgerComplete ==
    /\ Len(session.ledger) = Len(SessionRows)
    /\ {session.ledger[i] : i \in 1..Len(session.ledger)}
         = {SessionRows[i] : i \in 1..Len(SessionRows)}

\* C16: whatever validation returned, the persisted session has all drained
\* events and all frame records in the ledger and the validation result in
\* the metadata; the validation step changes no event and no frame record.
C16_PersistsWhateverValidation ==
    /\ [](session.pc = "persisted" =>
            /\ LedgerComplete
            /\ session.metadata.written
            /\ session.metadata.validation = session.validation)
    /\ [][session.pc = "correlated" =>
            /\ session'.events = session.events
            /\ session'.screen_frames = session.screen_frames
            /\ session'.webcam_frames = session.webcam_frames]_vars

\* with a screen recorder or an event the ledger is complete, valid or not
LedgerCompleteWhenWritten ==
    (session.pc = "persisted"
        /\ (session.screen_recorder \/ Len(session.events) > 0))
      => LedgerComplete

\* only frame_ref of an event ever changes, from None, in the correlator
FrameRefSetOnceOnly ==
    [][/\ Len(session'.events) = Len(session.events)
       /\ \A i \in 1..Len(session.events) :
             /\ session'.events[i] =
                  [session.events[i] EXCEPT
                      !.frame_ref = session'.events[i].frame_ref]
             /\ session'.events[i].frame_ref # session.events[i].frame_ref
                  => /\ session.events[i].frame_ref = Null
                     /\ session.pc = "drained"]_vars

\* C18 as stated: after the pipeline every drained event has a frame_ref,
\* assigned once by the correlator, and no other field of an event changed.
C18_EveryEventHasFrameRef ==
    /\ [](session.pc = "persisted" =>
            \A i \in 1..Len(session.events) :
                session.events[i].frame_ref # Null)
    /\ FrameRefSetOnceOnly

\* C18: after the pipeline every drained event has a frame_ref if the screen
\* stream has a record, and none if it has no record; frame_ref is assigned
\* once, by the correlator, and no other field of an event changes.
C18_FrameRefWhenFramesExist ==
    /\ [](session.pc = "persisted" =>
            \A i \in 1..Len(session.events) :
                (session.events[i].frame_ref # Null)
                    <=> (Len(session.screen_frames) > 0))
    /\ FrameRefSetOnceOnly

\* C18 witness: a persisted session with screen records whose events, one of
\* them earlier than the first record, all have a frame_ref.
C18_Witness ==
    /\ session.pc = "persisted"
    /\ Len(session.screen_frames) >= 2
    /\ Len(session.events) >= 2
    /\ \E i \in 1..Len(session.events) :
          /\ session.events[i].t_ns < session.screen_frames[1].t_ns
          /\ session.events[i].frame_ref = session.screen_frames[1].frame_index
    /\ \E i \in 1..Len(session.events) :
          session.events[i].frame_ref = session.screen_frames[2].frame_index

(* ---------------------------- stop() claims --------------------------- *)

\* C17: once stop() of a stream recorder has returned, the capture thread
\* changes neither frame_records nor frame_index, dropped_frames or
\* padded_frames, also when the join on the thread timed out.
C17_RecordsFixedAfterStop ==
    [][\A name \in {"screen", "webcam"} :
          LET r == IF name = "screen" THEN screen ELSE webcam
              q == IF name = "screen" THEN screen' ELSE webcam'
          IN  r.stopper = "returned" =>
                /\ q.frame_records = r.frame_records
                /\ q.frame_index = r.frame_index
                /\ q.dropped_frames = r.dropped_frames
                /\ q.padded_frames = r.padded_frames]_vars

\* C19: close() closes the sink's input; it returns normally only with exit
\* code 0; the process is killed exactly when it did not exit within the
\* timeout; and with a non-zero exit code close() raises.
C19_CloseWaitsAndRaises ==
    \A r \in Streams :
        LET w == r.writer
        IN  /\ w.close # "none" => ~w.stdin_open
            /\ w.close = "returned" => w.returncode = 0
            /\ w.timed_out <=> w.killed
            /\ w.returncode \notin {Null, 0} => w.close = "raised"

\* C19 witness: both ways close() raises have happened to a stream, one
\* whose encoder exited on its own with code 1 ...
C19_Witness ==
    \E r \in Streams :
        /\ r.writer.close = "raised"
        /\ ~r.writer.killed
        /\ r.writer.returncode = 1
        /\ Len(r.written) > 0

\* ... and one whose encoder was killed after the timeout, while the capture
\* thread had not ended when the join returned
WriterKilledAfterTimeout ==
    \E r \in Streams :
        /\ r.writer.close = "raised"
        /\ r.writer.killed
        /\ r.writer.returncode = KilledReturnCode
        /\ r.pc \notin {"exited", "crashed"}

(* --------------------------- cadence claims --------------------------- *)

HasCadenceWarning ==
    \E i \in 1..Len(session.validation.warnings) :
        session.validation.warnings[i] = "Screen frame cadence deviates"

\* the cadence warning is raised exactly when |mean interval - target| is
\* above 10% of the target int(1e9 / fps); the mean of the n intervals is
\* (last t_ns - first t_ns) / n
CadenceWarningRule ==
    LET fs == session.screen_frames
        n == Len(fs) - 1
        target == NsPerSecond \div fps
    IN  HasCadenceWarning <=>
            /\ n >= 1
            /\ Abs((fs[n + 1].t_ns - fs[1].t_ns) - n * target)
                   > (n * target) \div 10

\* C20 as stated: screen records at [0,33,67,100] ns with target fps 30 get
\* no cadence warning, and the warning follows the 10% rule.
C20_ExampleNsNoWarning ==
    Validated =>
        /\ Times(session.screen_frames) = <<0, 33, 67, 100>>
              => ~HasCadenceWarning
        /\ CadenceWarningRule

\* C20: the cadence warning is raised exactly when the mean interval deviates
\* from the target interval by more than 10% of it; screen records at
\* [0,33,67,100] ms with target fps 30 get no cadence warning, and those at
\* [0,33,67,100] ns get one.
C20_CadenceWarningRule ==
    Validated =>
        /\ CadenceWarningRule
        /\ Times(session.screen_frames) = <<0, 33000000, 67000000, 100000000>>
              => ~HasCadenceWarning
        /\ Times(session.screen_frames) = <<0, 33, 67, 100>>
              => HasCadenceWarning

\* C20 witness: the validated records at [0,33,67,100] ms, without warning.
C20_Witness ==
    /\ session.pc = "validated"
    /\ fps = 30
    /\ Times(session.screen_frames) = <<0, 33000000, 67000000, 100000000>>
    /\ session.validation.warnings = <<>>

\* the two sides of the 10% threshold are both validated
CadenceThresholdReached ==
    /\ session.pc = "validated"
    /\ Times(session.screen_frames) = <<0, 36666667>>
    /\ HasCadenceWarning

(* -------------------------- listener claims --------------------------- *)

HasInputMonotonicityError ==
    \E i \in 1..Len(session.validation.errors) :
        session.validation.errors[i]
            = "Input event timestamps are not monotonic"

\* C21: whatever the interleaving of the keyboard and the mouse callbacks,
\* the event queue is in non-decreasing t_ns order, and the drained events
\* given to validation never get the input monotonicity error.
C21_EventLogOrdered ==
    /\ NonDecreasing(Times(session.events_q))
    /\ Validated => ~HasInputMonotonicityError

\* C22: once the session's stop signal is set, no InputEvent is appended to
\* the event queue, also while the recorders are still being stopped.
C22_NoEventAfterStop ==
    [][session.stop_event =>
          Len(session'.events_q) <= Len(session.events_q)]_vars

\* before the stop signal the queue grows by the events of the callbacks
EventsBeforeStopOnly ==
    [][Len(session'.events_q) > Len(session.events_q)
          => session.input_logger = "running"]_vars

(* ----------------------------- tick claims ---------------------------- *)

\* whole intervals by which a loop is late for its next deadline
MissedDeadlines(r) == (now - r.next_frame_time) \div FrameIntervalNs(fps)

\* frame_bytes of a tick that takes no sample
LastKnownFrame(r) ==
    IF r.last_frame_bytes # Null THEN r.last_frame_bytes ELSE BlankFrame

\* C23: a failed pull is counted as dropped on a step that leaves the
\* deadline one interval beyond that of the failed tick (the pull is not
\* tried again for the same deadline), and the loop goes on.
C23_FailedPullSkipsTick ==
    [][\A name \in {"screen", "webcam"} :
          LET r == IF name = "screen" THEN screen ELSE webcam
              q == IF name = "screen" THEN screen' ELSE webcam'
              failed_deadline ==
                  IF r.pc = "write"
                  THEN r.frame_records[Len(r.frame_records)].t_ns
                  ELSE r.next_frame_time
          IN  q.dropped_frames = r.dropped_frames + 1 =>
                /\ q.next_frame_time = failed_deadline + FrameIntervalNs(fps)
                /\ q.pc \notin {"exited", "crashed"}]_vars

\* C24: a loop that starts a tick m >= 1 whole intervals late appends m
\* duplicate records with the last captured payload, advances frame_index by
\* m and dropped_frames by m, and takes no real sample for them.
C24_MissedDeadlinesPadded ==
    [][\A name \in {"screen", "webcam"} :
          LET r == IF name = "screen" THEN screen ELSE webcam
              q == IF name = "screen" THEN screen' ELSE webcam'
              m == MissedDeadlines(r)
          IN  (r.pc \in {"top", "gate"} /\ m >= 1
                  /\ (Len(q.frame_records) > Len(r.frame_records)
                        \/ q.ticks > r.ticks)) =>
                /\ Len(q.frame_records) = Len(r.frame_records) + m
                /\ \A i \in (Len(r.frame_records) + 1)..Len(q.frame_records) :
                       q.frame_records[i].is_duplicate
                /\ q.frame_index = r.frame_index + m
                /\ q.dropped_frames = r.dropped_frames + m
                /\ q.last_frame_bytes = r.last_frame_bytes
                /\ r.last_frame_bytes # Null]_vars

\* C26: a tick on which the gate returns false hands the last known real
\* frame (the blank frame if there is none) to the sink, and neither pulls a
\* sample nor reads the latest-sample cell.
C26_GateClosedEmitsLastSample ==
    [][\A name \in {"screen", "webcam"} :
          LET r == IF name = "screen" THEN screen ELSE webcam
              q == IF name = "screen" THEN screen' ELSE webcam'
          IN  (r.pc \in {"top", "gate"} /\ ~allowed
                  /\ q.ticks = r.ticks + 1) =>
                /\ q.pending = LastKnownFrame(r)
                /\ q.last_frame_bytes = r.last_frame_bytes
                /\ reader' = reader]_vars

\* C28: between iterations and once the loop has ended, a stream has as many
\* FrameRecords as frames written to its sink, also after a failed write.
C28_RecordPerWrittenFrame ==
    \A r \in Streams :
        AtBoundary(r) => Len(r.frame_records) = Len(r.written)

\* C29: dropped_frames is never incremented for a tick that has appended its
\* record, and a tick that advances the deadline changes exactly one of the
\* number of real records, padded_frames and dropped_frames, by one.
C29_OneCounterPerTick ==
    [][\A name \in {"screen", "webcam"} :
          LET r == IF name = "screen" THEN screen ELSE webcam
              q == IF name = "screen" THEN screen' ELSE webcam'
          IN  /\ q.dropped_frames > r.dropped_frames =>
                    /\ r.pc # "write"
                    /\ Len(q.frame_records) = Len(r.frame_records)
              /\ (r.pc \in {"top", "gate"} /\ q.ticks = r.ticks + 1) =>
                    (RealCount(q) - RealCount(r))
                      + (q.padded_frames - r.padded_frames)
                      + (q.dropped_frames - r.dropped_frames) = 1]_vars

\* C30: a stream pulls a sample or appends a record only when the clock has
\* reached the deadline of the tick, whatever the target rate.
C30_NoSampleBeforeDeadline ==
    [][\A name \in {"screen", "webcam"} :
          LET r == IF name = "screen" THEN screen ELSE webcam
              q == IF name = "screen" THEN screen' ELSE webcam'
          IN  (\/ Len(q.frame_records) > Len(r.frame_records)
               \/ (r.pc = "gate" /\ q.dropped_frames > r.dropped_frames))
                => now >= r.next_frame_time]_vars

\* at a rate whose interval is within the sleep cap the deadline is waited for
DeadlineWaitedForWithinCap ==
    [][\A name \in {"screen", "webcam"} :
          LET r == IF name = "screen" THEN screen ELSE webcam
              q == IF name = "screen" THEN screen' ELSE webcam'
          IN  (FrameIntervalNs(fps) <= SleepCapNs
                 /\ Len(q.frame_records) > Len(r.frame_records))
                => now >= r.next_frame_time]_vars

(* ------------------------ latest-sample cell claims ------------------- *)

\* C25: a webcam tick with the gate open appends a duplicate exactly when
\* the cell's capture time equals the one consumed last; a record that is no
\* duplicate carries the frame and the capture time the cell held together;
\* and no stored sample is in two records that are no duplicates.
C25_DuplicateIffNoNewSample ==
    /\ [][(webcam.pc = "top" /\ allowed
             /\ Len(webcam'.frame_records) > Len(webcam.frame_records)) =>
            LET new == webcam'.frame_records[Len(webcam'.frame_records)]
            IN  /\ new.is_duplicate <=>
                      reader.latest_capture_ns
                          = reader.last_consumed_capture_ns
                /\ ~new.is_duplicate =>
                      /\ new.t_capture_ns = reader.latest_capture_ns
                      /\ webcam'.pending = reader.latest_frame
                      /\ webcam'.pending = new.t_capture_ns]_vars
    /\ [](\A i, j \in 1..Len(webcam.frame_records) :
            (i < j /\ ~webcam.frame_records[i].is_duplicate
                   /\ ~webcam.frame_records[j].is_duplicate)
              => webcam.frame_records[i].t_capture_ns
                    # webcam.frame_records[j].t_capture_ns)

\* C25 witness: with the gate open, the primed sample was consumed, then a
\* sample the reader stored, and the tick after that found no new sample.
C25_Witness ==
    /\ allowed
    /\ webcam.pc = "write"
    /\ Len(webcam.frame_records) = 3
    /\ ~webcam.frame_records[1].is_duplicate
    /\ ~webcam.frame_records[2].is_duplicate
    /\ webcam.frame_records[2].t_capture_ns > webcam.frame_records[1].t_capture_ns
    /\ webcam.frame_records[3].is_duplicate
    /\ reader.latest_capture_ns = reader.last_consumed_capture_ns
    /\ webcam.pending = webcam.frame_records[2].t_capture_ns

(* --------------------------- loop exit claims ------------------------- *)

Ended(pc) == pc \in {"exited", "crashed"}

\* records a loop whose stop event is set can still append: that of the
\* tick in progress while the loop is before its sample, none after it
AppendsAhead(pc) == IF pc \in {"sleep", "gate"} THEN 1 ELSE 0

StoppedAsleepAppendsOne ==
    /\ screen.stop_event
    /\ screen.stopper = "join"
    /\ screen.pc = "write"
    /\ Len(screen.frame_records) = 2

(* ------------------------ interrupted capture claims ------------------ *)

\* the session is over: it returned or an exception left it
SessionOver == session.pc \in {"returned", "raised"}

\* teardown and post-capture steps are complete: nothing runs, the queue is
\* drained, and the validated events are in the ledger and the metadata
TornDownAndPersisted ==
    /\ session.input_logger = "stopped"
    /\ session.screen_state \notin {"running", "stop_failed"}
    /\ session.webcam_state \notin {"running", "stop_failed"}
    /\ session.events_q = <<>>
    /\ session.metadata.written
    /\ session.metadata.validation = session.validation
    /\ LedgerComplete

\* C31: a session whose capture phase was interrupted by an exception ends
\* with every started recorder and the input logger stopped, the events
\* drained, correlated, validated and persisted, and the exception re-raised.
C31_PersistThenReraise ==
    (session.capture_error # "none" /\ SessionOver) =>
        /\ TornDownAndPersisted
        /\ session.pc = "raised"

\* when no stop() raises in the teardown, that is how the session ends
ReraisedAfterPersist ==
    (session.capture_error # "none" /\ SessionOver
        /\ session.screen_state # "stop_failed"
        /\ session.webcam_state # "stop_failed") =>
        /\ TornDownAndPersisted
        /\ session.pc = "raised"

\* a screen recorder that ran until the webcam failed to start, persisted
InterruptedSessionPersisted ==
    /\ session.capture_error = "webcam"
    /\ session.screen_state = "stopped"
    /\ session.screen_writer.close = "returned"
    /\ session.pc = "raised"
    /\ session.metadata.written
    /\ Len(session.events) >= 2

(* ----------------------- trajectory count claims ---------------------- *)

\* how many of xs have t_ns in the closed interval [lo, hi]
CountWithin(xs, lo, hi) ==
    Cardinality({i \in 1..Len(xs) : xs[i].t_ns >= lo /\ xs[i].t_ns <= hi})

\* C32: every emitted trajectory holds at least one event and one screen
\* frame with t_ns in [start_time_ns, end_time_ns], its event_count and
\* frame_count are the numbers of events and frames in that closed interval,
\* and no trajectory is returned when the events or the frames are empty.
C32_WindowCounts ==
    /\ \A k \in 1..Len(session.trajectories) :
          LET tr == session.trajectories[k]
              ne == CountWithin(session.events,
                                tr.start_time_ns, tr.end_time_ns)
              nf == CountWithin(session.screen_frames,
                                tr.start_time_ns, tr.end_time_ns)
          IN  /\ ne >= 1
              /\ nf >= 1
              /\ tr.event_count = ne
              /\ tr.frame_count = nf
    /\ (Len(session.events) = 0 \/ Len(session.screen_frames) = 0)
          => session.trajectories = <<>>

\* C32 witness: two trajectories returned that both count the same event,
\* and a frame that lies on the closed end of the last window.
C32_Witness ==
    /\ SegReturned
    /\ Len(session.trajectories) = 2
    /\ LET t1 == session.trajectories[1]
           t2 == session.trajectories[2]
       IN  /\ \E i \in 1..Len(session.events) :
                  /\ session.events[i].t_ns >= t2.start_time_ns
                  /\ session.events[i].t_ns <= t1.end_time_ns
           /\ t1.event_count + t2.event_count > Len(session.events)
           /\ \E j \in 1..Len(session.screen_frames) :
                  session.screen_frames[j].t_ns = t2.end_time_ns

(* -------------------- waiting for the capture target ------------------ *)

\* what active_window_name() can return: no name, a window that is not the
\* game, the game client
WindowNames == {"", "Notepad", "League of Legends"}

\* --window: not given, or the name of the window to capture
ForcedWindows == {"", "Notepad"}

\* is_allowed_window(name): some ALLOWED_APP_NAMES entry occurs in the name
IsAllowedWindow(name) == name = "League of Legends"

\* if forced_window: allowed = bool(name and forced_window in name)
\* else: allowed = is_allowed_window(name)
WindowAllowed(name, forced_window) ==
    IF forced_window # "" THEN name # "" /\ name = forced_window
    ELSE IsAllowedWindow(name)

\* run_capture_session at its call to wait_for_capture_target: the hotkey
\* listener runs and the signal handlers are installed; no recorder, no
\* input logger and no session directory exist yet
InitTarget ==
    /\ now = StartNs
    /\ allowed = TRUE
    /\ fps = DefaultFps
    /\ screen = NewRecorder(FALSE)
    /\ webcam = NewRecorder(FALSE)
    /\ reader = [pc |-> "off", reader_stop |-> FALSE, latest_frame |-> Null,
                 latest_capture_ns |-> Null, last_consumed_capture_ns |-> Null]
    /\ \E has_screen \in BOOLEAN, has_webcam \in BOOLEAN,
          any \in BOOLEAN, forced \in ForcedWindows :
          session = [pc |-> "wait_entry",
                     allow_any_window |-> any,
                     forced_window |-> forced,
                     hotkey_listener |-> "running",
                     target |-> "pending",   \* "None" or "tuple" once returned
                     window_name |-> "",
                     bbox |-> FALSE,         \* FALSE: None, TRUE: the bounds
                     session_dir |-> FALSE,  \* session_dir.mkdir() done
                     input_logger |-> "none",
                     screen_state |-> "none",
                     webcam_state |-> "none"]
                    @@ SessionAtStart(has_screen, has_webcam)

\* wait_for_capture_target is running
WaitPcs == {"wait_entry", "wait_test", "wait_poll", "wait_sleep"}

\* handle_sigint / on_hotkey_press before the try block: stop_event.set()
TargetSignal ==
    /\ session.pc \in WaitPcs \cup {"check_target"}
    /\ ~session.stop_event
    /\ session' = [session EXCEPT !.stop_event = TRUE]
    /\ UNCHANGED <<now, allowed, fps, screen, webcam, reader>>

\* if allow_any_window: return (forced_window or active_window_name() or "",
\* None)
WaitForCaptureTargetEntry ==
    /\ session.pc = "wait_entry"
    /\ \E name \in WindowNames :
         session' =
           IF session.allow_any_window
           THEN [session EXCEPT
                   !.pc = "check_target",
                   !.target = "tuple",
                   !.window_name = IF session.forced_window # ""
                                   THEN session.forced_window ELSE name,
                   !.bbox = FALSE]
           ELSE [session EXCEPT !.pc = "wait_test"]
    /\ UNCHANGED <<now, allowed, fps, screen, webcam, reader>>

\* a loop top that does not read the stop event
WaitForCaptureTargetLoopTopIgnoresStop ==
    /\ session.pc = "wait_test"
    /\ session' = [session EXCEPT !.pc = "wait_poll"]
    /\ UNCHANGED <<now, allowed, fps, screen, webcam, reader>>

\* while not stop_event.is_set(): ...; return None
WaitForCaptureTargetLoopTop ==
    /\ session.pc = "wait_test"
    /\ session' =
         IF session.stop_event
         THEN [session EXCEPT !.pc = "check_target", !.target = "None"]
         ELSE [session EXCEPT !.pc = "wait_poll"]
    /\ UNCHANGED <<now, allowed, fps, screen, webcam, reader>>

\* the body of the loop up to its sleep: the front window is read and, when
\* it is allowed, its bounds; return (name or target_label, bbox) if bbox
WaitForCaptureTargetPoll ==
    /\ session.pc = "wait_poll"
    /\ \E name \in WindowNames, bounds_read \in BOOLEAN :
         session' =
           IF WindowAllowed(name, session.forced_window) /\ bounds_read
           THEN [session EXCEPT !.pc = "check_target",
                                !.target = "tuple",
                                !.window_name = name,
                                !.bbox = TRUE]
           ELSE [session EXCEPT !.pc = "wait_sleep"]
    /\ UNCHANGED <<now, allowed, fps, screen, webcam, reader>>

\* time.sleep(poll_seconds)
WaitForCaptureTargetSleep ==
    /\ session.pc = "wait_sleep"
    /\ session' = [session EXCEPT !.pc = "wait_test"]
    /\ UNCHANGED <<now, allowed, fps, screen, webcam, reader>>

\* if not target: hotkey_listener.stop(); return {}
\* else the session directory is made and the input logger and the
\* recorders that were asked for are constructed
SessionCheckTarget ==
    /\ session.pc = "check_target"
    /\ session' =
         IF session.target = "None"
         THEN [session EXCEPT !.pc = "aborted",
                              !.hotkey_listener = "stopped"]
         ELSE [session EXCEPT
                 !.pc = "start_input",
                 !.session_dir = TRUE,
                 !.input_logger = "constructed",
                 !.screen_state = IF session.screen_recorder
                                  THEN "constructed" ELSE "none",
                 !.webcam_state = IF session.webcam_recorder
                                  THEN "constructed" ELSE "none"]
    /\ UNCHANGED <<now, allowed, fps, screen, webcam, reader>>

NextTarget ==
    \/ TargetSignal
    \/ WaitForCaptureTargetEntry
    \/ WaitForCaptureTargetLoopTop
    \/ WaitForCaptureTargetPoll
    \/ WaitForCaptureTargetSleep
    \/ SessionCheckTarget
    \/ ClockAdvance
    \/ SessionSignal
    \/ InputCallback
    \/ SessionStartInput
    \/ SessionStartScreen
    \/ SessionStartWebcam
    \/ SessionWait
    \/ SessionStopWebcam
    \/ SessionStopScreen
    \/ SessionStopInput
    \/ SessionDrain
    \/ SessionCorrelate
    \/ SessionValidate
    \/ SessionWriteEvents
    \/ SessionWriteMetadata
    \/ SessionReturn

\* run_capture_session from its wait for the capture target on
SpecTarget == InitTarget /\ [][NextTarget]_vars

(* ------------------------ capture target claims ----------------------- *)

\* no input logger and no recorder was constructed or started, and no
\* session data exists
NothingStartedOrWritten ==
    /\ session.input_logger = "none"
    /\ session.screen_state = "none"
    /\ session.webcam_state = "none"
    /\ ~session.session_dir
    /\ session.events = <<>>
    /\ session.ledger = <<>>
    /\ ~session.metadata.written

\* a run that got no target starts nothing, writes nothing and ends:
\* run_capture_session stops the hotkey listener and returns
NoTargetEndsRun ==
    /\ [](session.target = "None" =>
            /\ session.pc \in {"check_target", "aborted"}
            /\ NothingStartedOrWritten)
    /\ [][(session.pc = "check_target" /\ session.target = "None"
             /\ session'.pc # session.pc) =>
            /\ session'.pc = "aborted"
            /\ session'.hotkey_listener = "stopped"]_vars
    /\ [][session.pc = "aborted" => session' = session]_vars

\* the wait returns a target only in any-window mode, at once, or from a
\* poll that found an allowed window and read its bounds
TargetOnlyWhenFound ==
    [][(session.pc \in WaitPcs /\ session'.pc \notin WaitPcs) =>
         /\ session'.pc = "check_target"
         /\ session'.target \in {"None", "tuple"}
         /\ session'.target = "tuple" =>
              \/ /\ session.allow_any_window
                 /\ session.pc = "wait_entry"
                 /\ ~session'.bbox
              \/ /\ ~session.allow_any_window
                 /\ session.pc = "wait_poll"
                 /\ WindowAllowed(session'.window_name, session.forced_window)
                 /\ session'.bbox]_vars

\* C33: when the stop signal is set before the wait has a target, the wait
\* returns no target, and the run then starts no recorder and no input
\* logger, writes nothing and ends; otherwise the wait ends only with an
\* allowed window whose bounds were read, or at once in any-window mode.
C33_StopBeforeTargetAborts ==
    /\ [][(session.pc \in WaitPcs /\ session.stop_event
             /\ session'.pc \notin WaitPcs) => session'.target = "None"]_vars
    /\ NoTargetEndsRun
    /\ TargetOnlyWhenFound

\* C33, amended: when the wait loop finds the stop signal set at the top of
\* a poll, the wait returns no target, and the run then starts no recorder
\* and no input logger, writes nothing and ends; otherwise the wait ends
\* only with an allowed window whose bounds were read, or at once in
\* any-window mode.
C33_StopAtLoopTopAborts ==
    /\ [][(session.pc = "wait_test" /\ session.stop_event
             /\ session'.pc # session.pc) =>
            /\ session'.pc = "check_target"
            /\ session'.target = "None"]_vars
    /\ NoTargetEndsRun
    /\ TargetOnlyWhenFound

\* C33 witness: the stop signal arrived during the wait for a window and the
\* run ended with nothing started.
C33_Witness ==
    /\ session.pc = "aborted"
    /\ session.stop_event
    /\ ~session.allow_any_window
    /\ session.target = "None"
    /\ session.hotkey_listener = "stopped"
    /\ NothingStartedOrWritten

(* ----------------------------- drain claims --------------------------- *)

\* the events drained so far, followed by those still in the queue
DrainedThenQueued == session.events \o session.events_q

\* C34: the events leave the queue in the order they were put, each once,
\* also while a listener thread is putting: the drained list followed by the
\* queue only ever grows at its end, holds no event twice, and the drain
\* ends with the queue empty, so that every event put before
\* input_logger.stop() returned is in the drained list, in put order.
C34_DrainIsFifo ==
    /\ [](\A i, j \in 1..Len(DrainedThenQueued) :
            DrainedThenQueued[i] = DrainedThenQueued[j] => i = j)
    /\ [][LET before == session.events \o session.events_q
              after == session'.events \o session'.events_q
          IN  \/ after = before
              \/ /\ Len(after) = Len(before) + 1
                 /\ SubSeq(after, 1, Len(before)) = before]_vars
    /\ [][(session.pc = "drain" /\ session'.pc # "drain") =>
            /\ session.events_q = <<>>
            /\ session'.events = session.events]_vars
    /\ [][session.pc \notin {"start_input", "start_screen", "start_webcam",
                             "waiting", "stop_webcam", "stop_screen",
                             "stop_input", "drain"}
            => session'.events = session.events]_vars

\* C34 witness: the drain loop has taken the oldest event, a second one is
\* in the queue, and a listener thread holds a third it has yet to put.
C34_Witness ==
    /\ session.pc = "drain"
    /\ Len(session.events) = 1
    /\ Len(session.events_q) = 1
    /\ \E l \in Listeners : session.in_emit[l] # <<>>
    /\ session.events[1].key_code = 2

(* --------------------------- frame index claims ----------------------- *)

\* validate_capture_data would warn of a frame-index gap in these records
HasFrameIndexGapWarning(frame_records) ==
    LET w == ValidationWarnings(<<>>, frame_records, <<>>, fps)
    IN  \E k \in 1..Len(w) : w[k] = "Frame index gap detected"

\* C35: in every stream, at every point of a run, the record appended i-th
\* (counting from 0) has frame_index i; frame_index changes only together
\* with an append, by one, so max(frame_index) + 1 is the record count and
\* validate_capture_data raises no frame-index gap warning for the records.
C35_FrameIndexIsPosition ==
    /\ [](\A r \in Streams :
            LET n == Len(r.frame_records)
            IN  /\ r.frame_index = n
                /\ \A i \in 1..n : r.frame_records[i].frame_index = i - 1
                /\ n > 0 =>
                     MaxOf({r.frame_records[i].frame_index : i \in 1..n}) + 1
                        = n
                /\ ~HasFrameIndexGapWarning(r.frame_records))
    /\ [][\A name \in {"screen", "webcam"} :
            LET r == IF name = "screen" THEN screen ELSE webcam
                q == IF name = "screen" THEN screen' ELSE webcam'
            IN  \/ /\ q.frame_index = r.frame_index
                   /\ q.frame_records = r.frame_records
                \/ /\ q.frame_index = r.frame_index + 1
                   /\ Len(q.frame_records) = Len(r.frame_records) + 1
                   /\ SubSeq(q.frame_records, 1, Len(r.frame_records))
                        = r.frame_records
                   /\ q.frame_records[Len(q.frame_records)].frame_index
                        = r.frame_index]_vars

\* C35 witness: a webcam stream that has appended three records, real and
\* padded ones, the last with frame_index 2.
C35_Witness ==
    /\ Len(webcam.frame_records) = 3
    /\ webcam.padded_frames >= 1
    /\ webcam.padded_frames < 3
    /\ webcam.frame_records[3].frame_index = 2

(* ------------------------- webcam padding claims ---------------------- *)

\* appended records with is_duplicate = true
DuplicateCount(r) ==
    Cardinality({i \in 1..Len(r.frame_records) :
                    r.frame_records[i].is_duplicate})

\* C36: every FrameRecord of the webcam stream has is_duplicate = true
\* exactly when its t_capture_ns is null, and between loop iterations
\* padded_frames is the number of appended records with is_duplicate = true.
C36_WebcamDuplicateMarks ==
    /\ \A i \in 1..Len(webcam.frame_records) :
          webcam.frame_records[i].is_duplicate
              <=> (webcam.frame_records[i].t_capture_ns = Null)
    /\ AtBoundary(webcam) => webcam.padded_frames = DuplicateCount(webcam)

\* C36 witness: between iterations, a real record followed by two padded
\* ones, one of them from a tick with the gate closed.
C36_Witness ==
    /\ webcam.pc = "top"
    /\ Len(webcam.frame_records) = 3
    /\ ~webcam.frame_records[1].is_duplicate
    /\ webcam.frame_records[1].t_capture_ns # Null
    /\ webcam.padded_frames = 2
    /\ ~allowed

(* --------------------------- merged table claims ---------------------- *)

\* how often x occurs in seq
Occurrences(seq, x) == Cardinality({i \in 1..Len(seq) : seq[i] = x})

\* a and b hold the same items, each as often in one as in the other
IsPermutation(a, b) ==
    /\ Len(a) = Len(b)
    /\ \A i \in 1..Len(a) : Occurrences(a, a[i]) = Occurrences(b, a[i])

\* the rows of a table that belong to a stream
RowsOfStream(table, stream) ==
    Cardinality({i \in 1..Len(table) : table[i].stream = stream})

\* C37: the table write_events builds from the events, the screen records
\* and the webcam records is a permutation of the rows collected from them:
\* one row per event, per screen record and per webcam record, none lost,
\* doubled or changed by the sort; with all three empty nothing is written.
C37_TableIsPermutation ==
    LET table == WriteEventsTable(session.events, session.screen_frames,
                                  session.webcam_frames)
        empty == /\ Len(session.events) = 0
                 /\ Len(session.screen_frames) = 0
                 /\ Len(session.webcam_frames) = 0
    IN  /\ IsPermutation(table, SessionRows)
        /\ RowsOfStream(table, "input") = Len(session.events)
        /\ RowsOfStream(table, "screen") = Len(session.screen_frames)
        /\ RowsOfStream(table, "webcam") = Len(session.webcam_frames)
        /\ \A i \in 1..Len(session.events) :
              Occurrences(table, EventRow(session.events[i])) = 1
        /\ \A i \in 1..Len(session.screen_frames) :
              Occurrences(table, FrameRow(session.screen_frames[i], "screen"))
                 = 1
        /\ \A i \in 1..Len(session.webcam_frames) :
              Occurrences(table, FrameRow(session.webcam_frames[i], "webcam"))
                 = 1
        /\ empty => table = <<>> /\ session.ledger = <<>>
        /\ (Written /\ (session.screen_recorder \/ Len(session.events) > 0))
              => session.ledger = table

\* C37 witness: a written table with rows of all three streams, two of them
\* with the same t_ns, in another order than the rows were collected.
C37_Witness ==
    /\ Written
    /\ Len(session.ledger) = MaxRows
    /\ \A st \in {"input", "screen", "webcam"} :
          RowsOfStream(session.ledger, st) >= 1
    /\ \E i \in 1..(Len(session.ledger) - 1) :
          session.ledger[i].t_ns = session.ledger[i + 1].t_ns
    /\ session.ledger # SessionRows

(* --------------------------- CaptureCoordinator ----------------------- *)

\* expected_modalities = {'screen', 'webcam', 'audio'}
ExpectedModalities == {"screen", "webcam", "audio"}

\* calls of create_capture_event, of submit_frame per modality and of
\* wait_for_frame in a run
MaxCaptureEvents == 2

MaxSubmits == 2

MaxWaits == 2

\* CaptureEvent(frame_index, target_timestamp_ns): frames = {} after
\* __post_init__; frames maps a modality to the frame_index of the FrameData
\* submitted for it, Null while the key is absent
CaptureEvent(frame_index, target_timestamp_ns) ==
    [is_none |-> FALSE,
     frame_index |-> frame_index,
     target_timestamp_ns |-> target_timestamp_ns,
     frames |-> [m \in ExpectedModalities |-> Null]]

\* current_capture_event = None
NoCaptureEvent ==
    [is_none |-> TRUE, frame_index |-> Null, target_timestamp_ns |-> Null,
     frames |-> [m \in ExpectedModalities |-> Null]]

\* expected_modalities.issubset(set(event.frames.keys()))
AllSubmitted(event) == \A m \in ExpectedModalities : event.frames[m] # Null

\* a CaptureCoordinator after start_capture(), its capture threads and a
\* thread that calls wait_for_frame; waiter is that thread's place in
\* wait_for_frame and returned what its last call returned
InitCoordinator ==
    /\ now = StartNs
    /\ allowed = TRUE
    /\ fps \in FpsChoices
    /\ screen = NewRecorder(FALSE)
    /\ webcam = NewRecorder(FALSE)
    /\ reader = [pc |-> "off", reader_stop |-> FALSE, latest_frame |-> Null,
                 latest_capture_ns |-> Null, last_consumed_capture_ns |-> Null]
    /\ session = [start_time_ns |-> StartNs,
                  current_capture_event |-> NoCaptureEvent,
                  created |-> 0,
                  submits |-> [m \in ExpectedModalities |-> 0],
                  waiter |-> "idle",
                  waits |-> 0,
                  returns |-> 0,
                  returned |-> NoCaptureEvent]

\* create_capture_event(frame_index): the event is replaced under the lock
\* of frame_ready
CreateCaptureEvent ==
    /\ session.created < MaxCaptureEvents
    /\ session' = [session EXCEPT
                     !.created = @ + 1,
                     !.current_capture_event =
                         CaptureEvent(session.created,
                             session.start_time_ns
                               + session.created * FrameIntervalNs(fps))]
    /\ UNCHANGED <<now, allowed, fps, screen, webcam, reader>>

\* submit_frame(modality, frame_data), all of it under the lock of
\* frame_ready; notify_all() wakes the thread waiting on the condition
SubmitFrame ==
    /\ \E modality \in ExpectedModalities :
         /\ session.submits[modality] < MaxSubmits
         /\ LET event == [session.current_capture_event EXCEPT
                            !.frames[modality] = session.submits[modality]]
            IN  session' =
                  IF session.current_capture_event.is_none
                  THEN [session EXCEPT !.submits[modality] = @ + 1]
                  ELSE [session EXCEPT
                          !.submits[modality] = @ + 1,
                          !.current_capture_event = event,
                          !.waiter = IF AllSubmitted(event) /\ @ = "waiting"
                                     THEN "notified" ELSE @]
    /\ UNCHANGED <<now, allowed, fps, screen, webcam, reader>>

\* wait_for_frame: with self.frame_ready: self.frame_ready.wait(timeout)
\* releases the lock and blocks
WaitForFrameEnter ==
    /\ session.waiter = "idle"
    /\ session.waits < MaxWaits
    /\ session' = [session EXCEPT !.waiter = "waiting", !.waits = @ + 1]
    /\ UNCHANGED <<now, allowed, fps, screen, webcam, reader>>

\* wait() was notified: it takes the lock again and returns True;
\* return self.current_capture_event
WaitForFrameReturn ==
    /\ session.waiter = "notified"
    /\ session' = [session EXCEPT !.waiter = "idle",
                                  !.returns = @ + 1,
                                  !.returned = session.current_capture_event]
    /\ UNCHANGED <<now, allowed, fps, screen, webcam, reader>>

\* wait() timed out: it returns False; return None
WaitForFrameTimeout ==
    /\ session.waiter = "waiting"
    /\ session' = [session EXCEPT !.waiter = "idle",
                                  !.returns = @ + 1,
                                  !.returned = NoCaptureEvent]
    /\ UNCHANGED <<now, allowed, fps, screen, webcam, reader>>

NextCoordinator ==
    \/ CreateCaptureEvent
    \/ SubmitFrame
    \/ WaitForFrameEnter
    \/ WaitForFrameReturn
    \/ WaitForFrameTimeout

SpecCoordinator == InitCoordinator /\ [][NextCoordinator]_vars

(* ---------------------------- coordinator claims ---------------------- *)

\* C38: wait_for_frame returns a capture event only when screen, webcam and
\* audio have all submitted their frame for that event, and None after the
\* timeout otherwise, whatever the interleaving of submit_frame,
\* create_capture_event and wait_for_frame; a submit_frame with no current
\* capture event changes nothing.
C38_WaitReturnsCompleteEvent ==
    /\ [](session.returns > 0 /\ ~session.returned.is_none
            => AllSubmitted(session.returned))
    /\ [][(session.waiter = "waiting" /\ session'.waiter = "idle")
            => session'.returned.is_none]_vars
    /\ [][(session.current_capture_event.is_none
             /\ session'.submits # session.submits) =>
            /\ session'.current_capture_event = session.current_capture_event
            /\ session'.waiter = session.waiter
            /\ session'.returned = session.returned]_vars

\* a wait is notified only by a submit that completed the current event
NotifiedByCompleteEvent ==
    [][(session.waiter = "waiting" /\ session'.waiter = "notified")
         => AllSubmitted(session'.current_capture_event)]_vars

\* a wait that was notified and ran before the next create_capture_event
\* returned the complete event
CompleteEventReturned ==
    /\ session.returns > 0
    /\ ~session.returned.is_none
    /\ AllSubmitted(session.returned)
    /\ session.returned.frame_index = 0

====
